---- MODULE Spec2Model ----
(***************************************************************************)
(* State-machine model of the typeface "forge" session handler             *)
(* (web/src/app/api/forge/route.ts, POST) with its scoring functions, and  *)
(* of the illustration session handler (web/src/app/api/feedback/route.ts, *)
(* first POST).  Spec and FairSpec are the typeface session, IllSpec the   *)
(* illustration session; ScoreSpec and CompareSpec apply the scoring step, *)
(* compareDNA and safeDiff to drawn inputs.  DetectSpec applies            *)
(* detectScript to drawn texts, DuoSpec runs two typeface sessions in one  *)
(* process, and CliSpec is runParallelStrategies of the command-line       *)
(* program (src/utils/geminiClient.ts) with the reference-feature cache of *)
(* evaluateConsistency.  The caller's session state is handleMessage       *)
(* folded over the events of the stream; ClientSpec applies handleMessage  *)
(* to messages in any order.  SseSpec is the framing of the stream and the *)
(* read loop of useSSEStream, HookSpec the start, cancel and settling of   *)
(* its requests.  RoutesSpec runs the base64 route, the file-backed route  *)
(* (feedback/route.ts, third POST) and the earlier file-backed route       *)
(* (part_003) on the same request and the same answers.                    *)
(*                                                                         *)
(* JavaScript numbers are modelled as integers plus the value NaN.  DNA    *)
(* measurements are kept in fixed point, in units of 1/Scale, so that      *)
(* fractional defaults such as 0.8 are exact.  Every synchronous stretch   *)
(* of the handler between two awaits is run to completion before the       *)
(* environment (abort signal, reader disconnect) may act, as the           *)
(* JavaScript event loop does.                                             *)
(*                                                                         *)
(* Weighted sums are computed exactly and rounded as Math.round does.  On  *)
(* the sample records and score values used below, IEEE double arithmetic  *)
(* gives the same rounded results.  Elapsed times are not modelled.        *)
(***************************************************************************)
EXTENDS Integers, Sequences, FiniteSets, TLC

VARIABLES
  pc,               \* position of start(): the await it is suspended at
  body,             \* parsed request body and environment (inputs)
  isCancelled,      \* let isCancelled (route.ts:188)
  readerGone,       \* the consumer cancelled the stream: enqueue throws
  events,           \* chunks enqueued on the stream, in order
  closeCalls,       \* number of controller.close() invocations
  refDNA,           \* let refDNA (route.ts:249)
  visualDesc,       \* let visualDesc (route.ts:250)
  iteration,        \* loop variable (route.ts:287)
  bestScore,        \* route.ts:283
  bestIteration,    \* route.ts:284
  previousFeedback, \* route.ts:285
  genDNA,           \* candidate DNA of the running iteration (route.ts:338)
  calls,            \* external model calls started, in order
  returns,          \* outcomes of the generateImage calls, in order
  exit,             \* how start() left the loop or returned
  sc,               \* scoring bench: inputs and outputs of one scoring step
  variation,        \* illustration route: index of the colour variation in work
  cli,              \* command-line program: runParallelStrategies, its sessions
                    \* and the reference-feature cache (qualityCritic)
  peer,             \* a second web session running in the same server process
  hook              \* the caller's stream hook (useSSEStream): its ref, flag and requests

vars == <<pc, body, isCancelled, readerGone, events, closeCalls, refDNA,
          iteration, bestScore, bestIteration, previousFeedback, genDNA,
          calls, returns, exit, sc, variation, cli, peer, visualDesc, hook>>

-----------------------------------------------------------------------------
(* Bounds of the model *)

\* largest maxIterations a request asks for
MaxIterBound == 2

\* largest colorVariationCount a request asks for (illustration route)
MaxColorVariations == 2

-----------------------------------------------------------------------------
(* JavaScript numbers *)

\* the not-a-number value; never the result of integer arithmetic here
NaN == 999999

\* fixed-point unit of DNA measurements: 1.0 is Scale
Scale == 10

IsNaN(x) == x = NaN

Abs(x) == IF x < 0 THEN -x ELSE x

Max2(a, b) == IF a >= b THEN a ELSE b

Min2(a, b) == IF a <= b THEN a ELSE b

\* Math.min: NaN if either argument is NaN
MathMin(a, b) == IF IsNaN(a) \/ IsNaN(b) THEN NaN ELSE Min2(a, b)

\* a < b, a > b, a >= b in JavaScript: false when either side is NaN
Lt(a, b) == ~IsNaN(a) /\ ~IsNaN(b) /\ a < b

Gt(a, b) == ~IsNaN(a) /\ ~IsNaN(b) /\ a > b

Ge(a, b) == ~IsNaN(a) /\ ~IsNaN(b) /\ a >= b

\* Math.round of the rational n/d (d > 0): nearest integer, halves go up
RoundDiv(n, d) == (2 * n + d) \div (2 * d)

RECURSIVE Gcd(_, _)
Gcd(a, b) == IF b = 0 THEN a ELSE Gcd(b, a % b)

\* a and b are evaluated once, as x and y
Lcm(a, b) == CHOOSE l \in {(x * y) \div Gcd(x, y) : x \in {a}, y \in {b}} : TRUE

-----------------------------------------------------------------------------
(* DNA records *)

\* a JSON null in place of a sub-record
Null == [isNull |-> TRUE]

\* getDefaultDNA: the stand-in record; criticalFeatures.top5 is empty.
\* top5 is modelled by its length.
getDefaultDNA ==
  [ stroke      |-> [contrastRatio |-> 1 * Scale, averageWeightPx |-> 40 * Scale],
    geometry    |-> [curveRadiusPx |-> 100 * Scale, outerCornerRadiusPx |-> 0,
                     inkTrapDepthPx |-> 0],
    terminals   |-> [roundnessFactor |-> 0],
    spacing     |-> [letterSpacingPx |-> 20 * Scale],
    proportions |-> [widthToHeightRatio |-> 8],
    features    |-> [hasStencilGaps |-> FALSE],
    standardFontDetection |-> [looksLikeStandardFont |-> FALSE],
    criticalFeatures      |-> [top5 |-> 0] ]

\* validateAndFillDNA: { ...defaults, ...data }, a merge of TOP-LEVEL keys
\* only; a sub-record present in data replaces the default one whole.
validateAndFillDNA(data) ==
  [k \in DOMAIN getDefaultDNA |->
      IF k \in DOMAIN data THEN data[k] ELSE getDefaultDNA[k]]

\* JSON objects the analysis model may answer with (parsed), by name
ParsedCustom ==
  [ stroke      |-> [contrastRatio |-> 2 * Scale, averageWeightPx |-> 40 * Scale],
    geometry    |-> [curveRadiusPx |-> 10 * Scale, outerCornerRadiusPx |-> 5 * Scale,
                     inkTrapDepthPx |-> 0],
    terminals   |-> [roundnessFactor |-> 5],
    spacing     |-> [letterSpacingPx |-> 20 * Scale],
    proportions |-> [widthToHeightRatio |-> 8],
    features    |-> [hasStencilGaps |-> FALSE],
    standardFontDetection |-> [looksLikeStandardFont |-> FALSE],
    criticalFeatures      |-> [top5 |-> 5] ]

\* every measured field as far from ParsedCustom as the metric allows
ParsedFar ==
  [ stroke      |-> [contrastRatio |-> 0, averageWeightPx |-> 0],
    geometry    |-> [curveRadiusPx |-> 0, outerCornerRadiusPx |-> 0,
                     inkTrapDepthPx |-> 5 * Scale],
    terminals   |-> [roundnessFactor |-> 100 * Scale],
    spacing     |-> [letterSpacingPx |-> 0],
    proportions |-> [widthToHeightRatio |-> 100 * Scale],
    features    |-> [hasStencilGaps |-> TRUE],
    standardFontDetection |-> [looksLikeStandardFont |-> FALSE],
    criticalFeatures      |-> [top5 |-> 5] ]

\* the custom style, but the analysis says it looks like a standard font
ParsedStandard ==
  [ standardFontDetection |-> [looksLikeStandardFont |-> TRUE],
    criticalFeatures      |-> [top5 |-> 5],
    stroke      |-> [contrastRatio |-> 1 * Scale, averageWeightPx |-> 20 * Scale] ]

\* a partially corrupt answer: "stroke": {} (its numbers are undefined)
ParsedEmptyStroke ==
  [ stroke           |-> [contrastRatio |-> NaN, averageWeightPx |-> NaN],
    criticalFeatures |-> [top5 |-> 5] ]

\* a partially corrupt answer: "standardFontDetection": null
ParsedNullDetection ==
  [ standardFontDetection |-> Null,
    criticalFeatures      |-> [top5 |-> 5] ]

\* answers without criticalFeatures: the merged record is a stand-in whose
\* other fields are not the default ones
\* {"stroke": {}}: the stroke numbers are undefined
ParsedStrokeOnly ==
  [ stroke |-> [contrastRatio |-> NaN, averageWeightPx |-> NaN] ]

\* {"geometry": null}
ParsedNullGeometry ==
  [ geometry |-> Null ]

\* measured fields and "criticalFeatures": null
ParsedNoFeatures ==
  [ stroke      |-> [contrastRatio |-> 4 * Scale, averageWeightPx |-> 40 * Scale],
    geometry    |-> [curveRadiusPx |-> 10 * Scale, outerCornerRadiusPx |-> 5 * Scale,
                     inkTrapDepthPx |-> 0],
    terminals   |-> [roundnessFactor |-> 5],
    features    |-> [hasStencilGaps |-> TRUE],
    criticalFeatures |-> Null ]

\* measured fields close to ParsedCustom and an empty top5 list
ParsedEmptyTop5 ==
  [ stroke      |-> [contrastRatio |-> 2 * Scale, averageWeightPx |-> 40 * Scale],
    geometry    |-> [curveRadiusPx |-> 10 * Scale, outerCornerRadiusPx |-> 5 * Scale,
                     inkTrapDepthPx |-> 0],
    terminals   |-> [roundnessFactor |-> 5],
    spacing     |-> [letterSpacingPx |-> 20 * Scale],
    proportions |-> [widthToHeightRatio |-> 8],
    criticalFeatures |-> [top5 |-> 0] ]

\* extractMathematicalDNA: the merged answer, or the default record when
\* the call throws, the answer has no JSON object or the JSON is malformed
ExtractOutcomes(parsedSet) ==
  {validateAndFillDNA(p) : p \in parsedSet} \cup {getDefaultDNA}

-----------------------------------------------------------------------------
(* compareDNA *)

\* mutant of IsDefaultDNA: the empty top5 list is not tested
IsDefaultDNAMissingOnly(dna) == dna.criticalFeatures = Null

\* !dna.criticalFeatures?.top5 || top5.length === 0
IsDefaultDNA(dna) ==
  \/ dna.criticalFeatures = Null
  \/ dna.criticalFeatures.top5 = 0

\* reading a field of a null sub-record throws a TypeError; no field is
\* read when both records are stand-ins (the early return comes first)
CompareThrows(ref, gen) ==
  /\ ~(IsDefaultDNA(ref) /\ IsDefaultDNA(gen))
  /\ \E d \in {ref, gen} :
        \E k \in {"stroke", "geometry", "spacing", "proportions", "terminals", "features"} :
           d[k] = Null

\* mutant of safeDiff: Math.abs is missing from the numerator
safeDiffSigned(a, b) ==
  IF IsNaN(a) \/ IsNaN(b) THEN <<NaN, 1>>
  ELSE IF a = 0 /\ b = 0 THEN <<0, 1>>
  ELSE <<a - b, Max2(Max2(Abs(a), Abs(b)), Scale)>>

\* safeDiff as the rational <<numerator, denominator>>; NaN when an
\* argument is not a number.  |a-b| / max(|a|,|b|,1), 0 when both are 0.
safeDiff(a, b) ==
  IF IsNaN(a) \/ IsNaN(b) THEN <<NaN, 1>>
  ELSE IF a = 0 /\ b = 0 THEN <<0, 1>>
  ELSE <<Abs(a - b), Max2(Max2(Abs(a), Abs(b)), Scale)>>

\* the eight weighted differences of compareDNA, as <<weight, safeDiff>>
WeightedDiffs(ref, gen) ==
  << <<20, safeDiff(ref.stroke.contrastRatio, gen.stroke.contrastRatio)>>,
     <<15, safeDiff(ref.stroke.averageWeightPx, gen.stroke.averageWeightPx)>>,
     <<15, safeDiff(ref.geometry.curveRadiusPx, gen.geometry.curveRadiusPx)>>,
     <<10, safeDiff(ref.geometry.outerCornerRadiusPx, gen.geometry.outerCornerRadiusPx)>>,
     <<10, safeDiff(ref.geometry.inkTrapDepthPx, gen.geometry.inkTrapDepthPx)>>,
     <<10, safeDiff(ref.spacing.letterSpacingPx, gen.spacing.letterSpacingPx)>>,
     <<10, safeDiff(ref.proportions.widthToHeightRatio, gen.proportions.widthToHeightRatio)>>,
     <<5,  safeDiff(ref.terminals.roundnessFactor, gen.terminals.roundnessFactor)>> >>

RECURSIVE LcmOfDens(_, _)
LcmOfDens(ds, i) ==
  IF i > Len(ds) THEN 1 ELSE Lcm(ds[i][2][2], LcmOfDens(ds, i + 1))

RECURSIVE SumOver(_, _, _)
SumOver(ds, L, i) ==
  IF i > Len(ds) THEN 0
  ELSE ds[i][1] * ds[i][2][1] * (L \div ds[i][2][2]) + SumOver(ds, L, i + 1)

\* route.ts:668-693 for the weighted differences ds with the common
\* denominator L: the subtractions, the cap for a stand-in, rounding, floor
ScoreOfDiffs(ds, L, featureMatch, anyDefault) ==
  LET \* score * L, after the nine subtractions
      num == 100 * L - SumOver(ds, L, 1) - (IF featureMatch THEN 0 ELSE 5 * L)
      \* if (refIsDefault || genIsDefault) score = Math.min(score, 60)
      capped == IF anyDefault THEN Min2(num, 60 * L) ELSE num
  IN IF \E i \in 1..Len(ds) : IsNaN(ds[i][2][1]) THEN NaN
     ELSE Max2(0, RoundDiv(capped, L))

\* compareDNA(ref, gen).overallScore.  The differences and their common
\* denominator are evaluated once each, as ds and L.
compareDNA(ref, gen) ==
  IF IsDefaultDNA(ref) /\ IsDefaultDNA(gen) THEN 50
  ELSE CHOOSE score \in
         { CHOOSE t \in
             { ScoreOfDiffs(ds, L,
                            ref.features.hasStencilGaps = gen.features.hasStencilGaps,
                            IsDefaultDNA(ref) \/ IsDefaultDNA(gen)) :
               L \in {LcmOfDens(ds, 1)} } : TRUE :
           ds \in {WeightedDiffs(ref, gen)} } : TRUE

\* the points each scoring category subtracts per field, in the order of
\* the code: the category-aware compareDNA of the file-backed route, whose
\* latin weights are those of WeightedDiffs plus 5 for featureMatch
CategoryWeights ==
  [ latin                 |-> <<20, 15, 15, 10, 10, 10, 10, 5, 5>>,
    japanese              |-> <<15, 10, 12, 12, 10, 10, 8, 8, 5, 10>>,
    japanese_geometric    |-> <<20, 15, 12, 15, 10, 10, 8, 5, 5>>,
    japanese_calligraphic |-> <<18, 12, 10, 8, 10, 6, 8, 10, 8, 5, 5>> ]

RECURSIVE SumSeq(_, _)
SumSeq(q, i) == IF i > Len(q) THEN 0 ELSE q[i] + SumSeq(q, i + 1)

-----------------------------------------------------------------------------
(* evaluateVisualSimilarity and the scoring step *)

\* the result returned when the call throws, the answer holds no JSON
\* object, or JSON.parse fails (route.ts:620-629)
EvalFailed ==
  [ similarityScore |-> 50, textAccuracy |-> 50,
    isGeneratedStandardFont |-> FALSE,
    preservedFeatures |-> "none", lostFeatures |-> "Unable to evaluate",
    critique |-> "Evaluation failed" ]

\* the result built from a parsed answer (route.ts:604-613): a missing or
\* non-numeric score becomes 50, numbers are passed through unchanged
evaluateVisualSimilarity(parsed) ==
  [ similarityScore |->
      IF "similarityScore" \in DOMAIN parsed THEN parsed.similarityScore ELSE 50,
    textAccuracy |->
      IF "textAccuracy" \in DOMAIN parsed THEN parsed.textAccuracy ELSE 50,
    isGeneratedStandardFont |->
      IF "isGeneratedStandardFont" \in DOMAIN parsed
         THEN parsed.isGeneratedStandardFont ELSE FALSE,
    preservedFeatures |->
      IF "preservedFeatures" \in DOMAIN parsed THEN parsed.preservedFeatures ELSE "none",
    lostFeatures |->
      IF "lostFeatures" \in DOMAIN parsed THEN parsed.lostFeatures ELSE "none",
    critique |->
      IF "critique" \in DOMAIN parsed THEN parsed.critique ELSE "No critique provided" ]

\* reading standardFontDetection.looksLikeStandardFont throws on a null
\* sub-record; the candidate's is read only if the || reaches it
ScoreThrows(ref, gen, ve) ==
  \/ ref.standardFontDetection = Null
  \/ /\ ~ref.standardFontDetection.looksLikeStandardFont
     /\ ~ve.isGeneratedStandardFont
     /\ gen.standardFontDetection = Null

\* wasReplacedWithStandardFont (route.ts:343-345)
wasReplacedWithStandardFont(ref, gen, ve) ==
  /\ ~ref.standardFontDetection.looksLikeStandardFont
  /\ (ve.isGeneratedStandardFont \/ gen.standardFontDetection.looksLikeStandardFont)

\* Math.round(x*wv + y*wa + z*wd) with weights given in tenths
RoundBlend(v, wv, a, wa, d, wd) ==
  IF IsNaN(v) \/ IsNaN(a) \/ IsNaN(d) THEN NaN
  ELSE RoundDiv(v * wv + a * wa + d * wd, 10)

\* the penalty blend when the style was replaced (route.ts:348-352)
PenaltyBlend(v, a, d) == MathMin(35, RoundBlend(v, 2, a, 4, d, 1))

\* the regular blend (route.ts:354-358)
RegularBlend(v, a, d) == RoundBlend(v, 4, a, 3, d, 3)

\* the ceiling for wrong text (route.ts:361-363)
AccuracyCap(score, a) == IF Lt(a, 50) THEN MathMin(score, 40) ELSE score

\* finalScore (route.ts:342-363)
finalScore(v, a, d, replaced) ==
  AccuracyCap(IF replaced THEN PenaltyBlend(v, a, d) ELSE RegularBlend(v, a, d), a)

\* lines 339-363 for one candidate: the comparison, the flag and the score
ScoreStep(ref, gen, ve) ==
  IF CompareThrows(ref, gen) \/ ScoreThrows(ref, gen, ve)
  THEN [threw |-> TRUE, dnaScore |-> 0, replaced |-> FALSE, score |-> 0]
  ELSE CHOOSE res \in
         { [threw |-> FALSE, dnaScore |-> d, replaced |-> r,
            score |-> finalScore(ve.similarityScore, ve.textAccuracy, d, r)] :
           d \in {compareDNA(ref, gen)},
           r \in {wasReplacedWithStandardFont(ref, gen, ve)} } : TRUE

\* mutant of Converged: the flag test inverted
ConvergedInverted(score, replaced) == Ge(score, 90) /\ replaced

\* the convergence test (route.ts:397)
Converged(score, replaced) == Ge(score, 90) /\ ~replaced

\* mutant of BestUpdate: >= instead of >, a tie moves to the later iteration
BestUpdateOnTie(best, bestIt, score, it) ==
  IF Ge(score, best) THEN <<score, it>> ELSE <<best, bestIt>>

\* best-result update (route.ts:385-388), as <<bestScore, bestIteration>>
BestUpdate(best, bestIt, score, it) ==
  IF Gt(score, best) THEN <<score, it>> ELSE <<best, bestIt>>

\* previousFeedback: undefined before the first evaluation
NoFeedback ==
  [ present |-> FALSE, lostFeatures |-> "none", preservedFeatures |-> "none",
    previousScore |-> 0, critique |-> "none" ]

\* mutant of NextFeedback: the running best is recorded as previousScore
NextFeedbackBest(ve, score, best) ==
  [ present |-> TRUE, lostFeatures |-> ve.lostFeatures,
    preservedFeatures |-> ve.preservedFeatures,
    previousScore |-> best, critique |-> ve.critique ]

\* the record built at route.ts:390-395
NextFeedback(ve, score, best) ==
  [ present |-> TRUE, lostFeatures |-> ve.lostFeatures,
    preservedFeatures |-> ve.preservedFeatures,
    previousScore |-> score, critique |-> ve.critique ]

-----------------------------------------------------------------------------
(* Inputs of a session *)

\* request bodies: jsonOk is FALSE when request.json() rejects
Bodies ==
  [ jsonOk : {TRUE}, referenceImage : {TRUE}, targetText : {TRUE}, apiKey : {TRUE},
    maxIterations : 0..MaxIterBound ]
  \cup
  { [jsonOk |-> FALSE, referenceImage |-> TRUE, targetText |-> TRUE, apiKey |-> TRUE,
     maxIterations |-> 1],
    [jsonOk |-> TRUE, referenceImage |-> FALSE, targetText |-> TRUE, apiKey |-> TRUE,
     maxIterations |-> 1],
    [jsonOk |-> TRUE, referenceImage |-> TRUE, targetText |-> FALSE, apiKey |-> TRUE,
     maxIterations |-> 1],
    [jsonOk |-> TRUE, referenceImage |-> TRUE, targetText |-> TRUE, apiKey |-> FALSE,
     maxIterations |-> 1] }

\* what the analysis model may answer for the reference image
RefParsed == {ParsedCustom}

\* what the analysis model may answer for a generated image
GenParsed == {ParsedCustom, ParsedFar, ParsedEmptyStroke, ParsedNullDetection}

\* answers of the evaluation model, parsed
AnsHigh ==
  [ similarityScore |-> 100, textAccuracy |-> 100, isGeneratedStandardFont |-> FALSE,
    preservedFeatures |-> "weight", lostFeatures |-> "curves", critique |-> "close" ]

AnsReplaced ==
  [ similarityScore |-> 90, textAccuracy |-> 90, isGeneratedStandardFont |-> TRUE,
    preservedFeatures |-> "text", lostFeatures |-> "style", critique |-> "generic font" ]

AnsOutOfRange ==
  [ similarityScore |-> 300, textAccuracy |-> 100, isGeneratedStandardFont |-> FALSE,
    preservedFeatures |-> "all", lostFeatures |-> "nothing", critique |-> "perfect" ]

AnsZero ==
  [ similarityScore |-> 0, textAccuracy |-> 0, isGeneratedStandardFont |-> FALSE,
    preservedFeatures |-> "nothing", lostFeatures |-> "all", critique |-> "unreadable" ]

EvalParsed == {AnsHigh, AnsReplaced, AnsOutOfRange, AnsZero}

\* results evaluateVisualSimilarity can return
EvalOutcomes == {evaluateVisualSimilarity(p) : p \in EvalParsed} \cup {EvalFailed}

-----------------------------------------------------------------------------
(* The progress stream *)

\* mutant of send: the cancelled flag is not consulted
sendUnguarded(s, e) ==
  IF readerGone THEN [c |-> TRUE, ev |-> s.ev]
  ELSE [c |-> s.c, ev |-> Append(s.ev, e)]

\* mutant of send: the catch swallows the failed enqueue without setting
\* the flag
sendNoLatch(s, e) ==
  IF s.c THEN s
  ELSE IF readerGone THEN [c |-> FALSE, ev |-> s.ev]
  ELSE [c |-> FALSE, ev |-> Append(s.ev, e)]

\* send (route.ts:196-205) on the pair s = [c: isCancelled, ev: events]:
\* no-op once cancelled; an enqueue that throws latches the flag
send(s, e) ==
  IF s.c THEN s
  ELSE IF readerGone THEN [c |-> TRUE, ev |-> s.ev]
  ELSE [c |-> FALSE, ev |-> Append(s.ev, e)]

Cur == [c |-> isCancelled, ev |-> events]

EvError == [type |-> "error", iteration |-> 0]

EvStatus(st, it) == [type |-> "status", status |-> st, iteration |-> it]

EvSession == [type |-> "session", iteration |-> 0]

EvDna(dna, desc) ==
  [ type |-> "dna", iteration |-> 0, dna |-> dna, visualDescription |-> desc,
    warning |-> IsDefaultDNA(dna) ]

EvIterationStart(it) == [type |-> "iteration_start", iteration |-> it]

EvIterationError(it) == [type |-> "iteration_error", iteration |-> it]

EvIterationImage(it) == [type |-> "iteration_image", iteration |-> it]

EvIterationEval(it, r, ve) ==
  [ type |-> "iteration_eval", iteration |-> it, score |-> r.score,
    visualScore |-> ve.similarityScore, dnaScore |-> r.dnaScore,
    textAccuracy |-> ve.textAccuracy,
    wasReplacedWithStandardFont |-> r.replaced, visualEvaluation |-> ve ]

EvComplete(best, bestIt) ==
  [type |-> "complete", iteration |-> 0, bestScore |-> best, bestIteration |-> bestIt]

Call(fn, it, fb) == [fn |-> fn, iteration |-> it, feedback |-> fb]

\* the call generateImage(ai, refImageBase64, targetText, scriptType, refDNA,
\* visualDesc, previousFeedback) of route.ts:309
GenCall(it, fb, dna, desc) ==
  [ fn |-> "generateImage", iteration |-> it, feedback |-> fb,
    referenceDNA |-> dna, visualDesc |-> desc ]

\* the awaits of start(): only here can the abort listener or a reader
\* disconnect run
AwaitPcs ==
  { "await_json", "await_ref", "await_gen", "await_gendna", "await_eval",
    "ill_json", "ill_ref", "ill_gen", "ill_eval", "ill_var" }

-----------------------------------------------------------------------------
(* The session handler, POST / start(controller) *)

\* visualDesc before the reference is analysed
NoVisualDesc == [overallStyle |-> "undefined"]

\* extractVisualDescription: the description taken from the answer, or
\* the record returned when the call throws or the answer holds no JSON
\* object (route.ts:463-468)
VisualDescOutcomes ==
  { [overallStyle |-> "rounded geometric sans"], [overallStyle |-> "Unable to extract"] }

\* no stream hook is mounted
HookOff == [phase |-> "off"]

\* the command-line program is not running
CliOff == [phase |-> "off"]

\* no second session
NoPeer == [present |-> FALSE]

Init ==
  /\ pc = "await_json"
  /\ body \in Bodies
  /\ isCancelled = FALSE
  /\ readerGone = FALSE
  /\ events = <<>>
  /\ closeCalls = 0
  /\ refDNA = getDefaultDNA
  /\ visualDesc = NoVisualDesc
  /\ iteration = 0
  /\ bestScore = 0
  /\ bestIteration = 0
  /\ previousFeedback = NoFeedback
  /\ genDNA = getDefaultDNA
  /\ calls = <<>>
  /\ returns = <<>>
  /\ exit = "running"
  /\ sc = [phase |-> "off"]
  /\ variation = 0
  /\ cli = CliOff
  /\ peer = NoPeer
  /\ hook = HookOff

\* mutant of Abort: the flag is shared by the requests of the process, the
\* listener of one request cancels the other one too
AbortShared ==
  /\ UNCHANGED <<cli, visualDesc, hook>>
  /\ peer' = IF peer.present THEN [peer EXCEPT !.isCancelled = TRUE] ELSE peer
  /\ pc \in AwaitPcs
  /\ ~isCancelled
  /\ isCancelled' = TRUE
  /\ UNCHANGED <<pc, body, readerGone, events, closeCalls, refDNA, iteration,
                 bestScore, bestIteration, previousFeedback, genDNA, calls,
                 returns, exit, sc, variation>>

\* request.signal 'abort' listener (route.ts:190-192)
Abort ==
  /\ UNCHANGED <<cli, peer, visualDesc, hook>>
  /\ pc \in AwaitPcs
  /\ ~isCancelled
  /\ isCancelled' = TRUE
  /\ UNCHANGED <<pc, body, readerGone, events, closeCalls, refDNA, iteration,
                 bestScore, bestIteration, previousFeedback, genDNA, calls,
                 returns, exit, sc, variation>>

\* the consumer cancels the response stream: later enqueues throw
ReaderCancel ==
  /\ UNCHANGED <<cli, peer, visualDesc, hook>>
  /\ pc \in AwaitPcs
  /\ ~readerGone
  /\ readerGone' = TRUE
  /\ UNCHANGED <<pc, body, isCancelled, events, closeCalls, refDNA, iteration,
                 bestScore, bestIteration, previousFeedback, genDNA, calls,
                 returns, exit, sc, variation>>

\* mutant of Thrown: a catch without the finally, the stream is left open
ThrownNoClose ==
  /\ events' = (IF isCancelled THEN Cur ELSE send(Cur, EvError)).ev
  /\ isCancelled' = (IF isCancelled THEN Cur ELSE send(Cur, EvError)).c
  /\ closeCalls' = closeCalls
  /\ exit' = "error"
  /\ pc' = "done"

\* an exception reaches the outer catch (route.ts:407-413): an error event
\* unless cancelled, then finally closes the stream
Thrown ==
  /\ events' = (IF isCancelled THEN Cur ELSE send(Cur, EvError)).ev
  /\ isCancelled' = (IF isCancelled THEN Cur ELSE send(Cur, EvError)).c
  /\ closeCalls' = closeCalls + 1
  /\ exit' = "error"
  /\ pc' = "done"

\* an early return: controller.close(), return, and finally closes again
EarlyReturn(s, how) ==
  /\ events' = s.ev
  /\ isCancelled' = s.c
  /\ closeCalls' = closeCalls + 2
  /\ exit' = how
  /\ pc' = "done"

\* mutant of MissingInput: the service credential is not tested
MissingInputNoKey(b) == ~b.referenceImage \/ ~b.targetText

\* route.ts:213-224: a required field or GEMINI_API_KEY is missing
MissingInput(b) == ~b.referenceImage \/ ~b.targetText \/ ~b.apiKey

\* route.ts:210-246: body parsed, inputs validated, first events, and the
\* two reference analyses started
ParseBody ==
  /\ UNCHANGED <<cli, peer, visualDesc, hook>>
  /\ pc = "await_json"
  /\ UNCHANGED <<body, readerGone, refDNA, iteration, bestScore, bestIteration,
                 previousFeedback, genDNA, returns, sc, variation>>
  /\ IF ~body.jsonOk
     THEN Thrown /\ UNCHANGED calls
     ELSE IF MissingInput(body)
     THEN EarlyReturn(send(Cur, EvError), "error") /\ UNCHANGED calls
     ELSE LET s1 == send(Cur, EvStatus("uploading", 0))
              s2 == send(s1, EvSession)
              s3 == send(s2, EvStatus("analyzing", 0))
          IN IF s1.c \/ s2.c
             THEN EarlyReturn(s2, "cancelled") /\ UNCHANGED calls
             ELSE /\ events' = s3.ev
                  /\ isCancelled' = s3.c
                  /\ calls' = calls \o <<Call("extractMathematicalDNA", 0, NoFeedback),
                                         Call("extractVisualDescription", 0, NoFeedback)>>
                  /\ pc' = "await_ref"
                  /\ UNCHANGED <<closeCalls, exit>>

\* route.ts:254-285: the reference DNA arrives; the dna event is sent
RefExtracted ==
  /\ UNCHANGED <<cli, peer, hook>>
  /\ pc = "await_ref"
  /\ UNCHANGED <<body, readerGone, bestScore, bestIteration, previousFeedback,
                 genDNA, calls, returns, sc, variation>>
  /\ \E dna \in ExtractOutcomes(RefParsed) : \E desc \in VisualDescOutcomes :
        /\ refDNA' = dna
        /\ visualDesc' = desc
        /\ IF isCancelled
           THEN EarlyReturn(Cur, "cancelled") /\ UNCHANGED iteration
           ELSE LET s == send(Cur, EvDna(dna, desc))
                IN /\ events' = s.ev
                   /\ isCancelled' = s.c
                   /\ iteration' = 1
                   /\ pc' = "loop"
                   /\ UNCHANGED <<closeCalls, exit>>

\* mutant of LoopHead: the iteration_start event is not sent
LoopHeadNoStart ==
  /\ UNCHANGED <<cli, peer, visualDesc, hook>>
  /\ pc = "loop"
  /\ UNCHANGED <<body, readerGone, closeCalls, refDNA, iteration, bestScore,
                 bestIteration, previousFeedback, genDNA, returns, sc, variation>>
  /\ IF iteration > body.maxIterations
     THEN /\ pc' = "after_loop"
          /\ exit' = "exhausted"
          /\ UNCHANGED <<events, isCancelled, calls>>
     ELSE IF isCancelled
     THEN /\ pc' = "after_loop"
          /\ exit' = "cancelled"
          /\ UNCHANGED <<events, isCancelled, calls>>
     ELSE LET s2 == send(Cur, EvStatus("generating", iteration))
          IN /\ events' = s2.ev
             /\ isCancelled' = s2.c
             /\ IF s2.c
                THEN /\ pc' = "after_loop"
                     /\ exit' = "cancelled"
                     /\ UNCHANGED calls
                ELSE /\ pc' = "await_gen"
                     /\ calls' = Append(calls, GenCall(iteration, previousFeedback, refDNA, visualDesc))
                     /\ UNCHANGED exit

\* route.ts:287-309: loop condition, cancellation check, iteration_start
\* and status events, second check, and the generation call is started
LoopHead ==
  /\ UNCHANGED <<cli, peer, visualDesc, hook>>
  /\ pc = "loop"
  /\ UNCHANGED <<body, readerGone, closeCalls, refDNA, iteration, bestScore,
                 bestIteration, previousFeedback, genDNA, returns, sc, variation>>
  /\ IF iteration > body.maxIterations
     THEN /\ pc' = "after_loop"
          /\ exit' = "exhausted"
          /\ UNCHANGED <<events, isCancelled, calls>>
     ELSE IF isCancelled
     THEN /\ pc' = "after_loop"
          /\ exit' = "cancelled"
          /\ UNCHANGED <<events, isCancelled, calls>>
     ELSE LET s1 == send(Cur, EvIterationStart(iteration))
              s2 == send(s1, EvStatus("generating", iteration))
          IN /\ events' = s2.ev
             /\ isCancelled' = s2.c
             /\ IF s2.c
                THEN /\ pc' = "after_loop"
                     /\ exit' = "cancelled"
                     /\ UNCHANGED calls
                ELSE /\ pc' = "await_gen"
                     /\ calls' = Append(calls, GenCall(iteration, previousFeedback, refDNA, visualDesc))
                     /\ UNCHANGED exit

\* mutant of GenThrows: the failure leaves the loop (break for continue)
GenThrowsBreak ==
  /\ UNCHANGED <<cli, peer, visualDesc, hook>>
  /\ pc = "await_gen"
  /\ returns' = Append(returns, [iteration |-> iteration, ok |-> FALSE])
  /\ UNCHANGED <<body, readerGone, closeCalls, refDNA, bestScore, bestIteration,
                 previousFeedback, genDNA, calls, sc, variation, iteration>>
  /\ pc' = "after_loop"
  /\ IF isCancelled
     THEN /\ exit' = "cancelled"
          /\ UNCHANGED <<events, isCancelled>>
     ELSE LET s == send(Cur, EvIterationError(iteration))
          IN /\ events' = s.ev
             /\ isCancelled' = s.c
             /\ exit' = "exhausted"

\* mutant of GenThrows: the failure also discards the feedback record
GenThrowsDropsFeedback ==
  /\ UNCHANGED <<cli, peer, visualDesc, hook>>
  /\ pc = "await_gen"
  /\ returns' = Append(returns, [iteration |-> iteration, ok |-> FALSE])
  /\ previousFeedback' = NoFeedback
  /\ UNCHANGED <<body, readerGone, closeCalls, refDNA, bestScore, bestIteration,
                 genDNA, calls, sc, variation>>
  /\ IF isCancelled
     THEN /\ pc' = "after_loop"
          /\ exit' = "cancelled"
          /\ UNCHANGED <<events, isCancelled, iteration>>
     ELSE LET s == send(Cur, EvIterationError(iteration))
          IN /\ events' = s.ev
             /\ isCancelled' = s.c
             /\ iteration' = iteration + 1
             /\ pc' = "loop"
             /\ UNCHANGED exit

\* mutant of GenThrows: the failed index is tried again
GenThrowsRetries ==
  /\ UNCHANGED <<cli, peer, visualDesc, hook>>
  /\ pc = "await_gen"
  /\ returns' = Append(returns, [iteration |-> iteration, ok |-> FALSE])
  /\ UNCHANGED <<body, readerGone, closeCalls, refDNA, bestScore, bestIteration,
                 previousFeedback, genDNA, calls, sc, variation>>
  /\ IF isCancelled
     THEN /\ pc' = "after_loop"
          /\ exit' = "cancelled"
          /\ UNCHANGED <<events, isCancelled, iteration>>
     ELSE LET s == send(Cur, EvIterationError(iteration))
          IN /\ events' = s.ev
             /\ isCancelled' = s.c
             /\ iteration' = iteration
             /\ pc' = "loop"
             /\ UNCHANGED exit

\* route.ts:310-314: generateImage throws (call failed or no image)
GenThrows ==
  /\ UNCHANGED <<cli, peer, visualDesc, hook>>
  /\ pc = "await_gen"
  /\ returns' = Append(returns, [iteration |-> iteration, ok |-> FALSE])
  /\ UNCHANGED <<body, readerGone, closeCalls, refDNA, bestScore, bestIteration,
                 previousFeedback, genDNA, calls, sc, variation>>
  /\ IF isCancelled
     THEN /\ pc' = "after_loop"
          /\ exit' = "cancelled"
          /\ UNCHANGED <<events, isCancelled, iteration>>
     ELSE LET s == send(Cur, EvIterationError(iteration))
          IN /\ events' = s.ev
             /\ isCancelled' = s.c
             /\ iteration' = iteration + 1
             /\ pc' = "loop"
             /\ UNCHANGED exit

\* route.ts:315-338: an image arrives; iteration_image and status events,
\* then the candidate DNA extraction is started
GenReturns ==
  /\ UNCHANGED <<cli, peer, visualDesc, hook>>
  /\ pc = "await_gen"
  /\ returns' = Append(returns, [iteration |-> iteration, ok |-> TRUE])
  /\ UNCHANGED <<body, readerGone, closeCalls, refDNA, iteration, bestScore,
                 bestIteration, previousFeedback, genDNA, sc, variation>>
  /\ IF isCancelled
     THEN /\ pc' = "after_loop"
          /\ exit' = "cancelled"
          /\ UNCHANGED <<events, isCancelled, calls>>
     ELSE LET s1 == send(Cur, EvIterationImage(iteration))
              s2 == send(s1, EvStatus("evaluating", iteration))
          IN IF s1.c
             THEN /\ events' = s1.ev
                  /\ isCancelled' = s1.c
                  /\ pc' = "after_loop"
                  /\ exit' = "cancelled"
                  /\ UNCHANGED calls
             ELSE /\ events' = s2.ev
                  /\ isCancelled' = s2.c
                  /\ calls' = Append(calls, Call("extractMathematicalDNA", iteration, NoFeedback))
                  /\ pc' = "await_gendna"
                  /\ UNCHANGED exit

\* mutant of GenDNAExtracted: the candidate DNA is also stored as the
\* reference
GenDNAExtractedIntoRef ==
  /\ UNCHANGED <<cli, peer, visualDesc, hook>>
  /\ pc = "await_gendna"
  /\ UNCHANGED <<body, readerGone, iteration, bestScore, bestIteration,
                 previousFeedback, returns, sc, variation>>
  /\ \E dna \in ExtractOutcomes(GenParsed) :
        /\ genDNA' = dna
        /\ refDNA' = dna
        /\ IF CompareThrows(refDNA, dna)
           THEN Thrown /\ UNCHANGED calls
           ELSE /\ calls' = Append(calls, Call("evaluateVisualSimilarity", iteration, NoFeedback))
                /\ pc' = "await_eval"
                /\ UNCHANGED <<events, isCancelled, closeCalls, exit>>

\* route.ts:338-340: the candidate DNA arrives, compareDNA runs, and the
\* visual evaluation is started (no cancellation check in between)
GenDNAExtracted ==
  /\ UNCHANGED <<cli, peer, visualDesc, hook>>
  /\ pc = "await_gendna"
  /\ UNCHANGED <<body, readerGone, refDNA, iteration, bestScore, bestIteration,
                 previousFeedback, returns, sc, variation>>
  /\ \E dna \in ExtractOutcomes(GenParsed) :
        /\ genDNA' = dna
        /\ IF CompareThrows(refDNA, dna)
           THEN Thrown /\ UNCHANGED calls
           ELSE /\ calls' = Append(calls, Call("evaluateVisualSimilarity", iteration, NoFeedback))
                /\ pc' = "await_eval"
                /\ UNCHANGED <<events, isCancelled, closeCalls, exit>>

\* route.ts:340-399: the evaluation arrives; score, iteration_eval event,
\* best-result update, feedback record, convergence test
Evaluated ==
  /\ UNCHANGED <<cli, peer, visualDesc, hook>>
  /\ pc = "await_eval"
  /\ UNCHANGED <<body, readerGone, refDNA, genDNA, calls, returns, sc, variation>>
  /\ \E ve \in EvalOutcomes : \E r \in {ScoreStep(refDNA, genDNA, ve)} :
           IF r.threw
           THEN Thrown /\ UNCHANGED <<iteration, bestScore, bestIteration, previousFeedback>>
           ELSE IF isCancelled
           THEN /\ pc' = "after_loop"
                /\ exit' = "cancelled"
                /\ UNCHANGED <<events, isCancelled, closeCalls, iteration, bestScore,
                               bestIteration, previousFeedback>>
           ELSE LET s == send(Cur, EvIterationEval(iteration, r, ve))
                    b == BestUpdate(bestScore, bestIteration, r.score, iteration)
                IN /\ events' = s.ev
                   /\ isCancelled' = s.c
                   /\ bestScore' = b[1]
                   /\ bestIteration' = b[2]
                   /\ previousFeedback' = NextFeedback(ve, r.score, b[1])
                   /\ UNCHANGED closeCalls
                   /\ IF Converged(r.score, r.replaced)
                      THEN /\ pc' = "after_loop"
                           /\ exit' = "converged"
                           /\ UNCHANGED iteration
                      ELSE /\ pc' = "loop"
                           /\ iteration' = iteration + 1
                           /\ UNCHANGED exit

\* mutant of Finish: the stream is closed without the complete event
FinishSilent ==
  /\ UNCHANGED <<cli, peer, visualDesc, hook>>
  /\ pc = "after_loop"
  /\ closeCalls' = closeCalls + 1
  /\ pc' = "done"
  /\ UNCHANGED <<body, readerGone, refDNA, iteration, bestScore, bestIteration,
                 previousFeedback, genDNA, calls, returns, exit, sc, variation, events,
                 isCancelled>>

\* mutant of Finish: the stream is closed inside the try block, after the
\* complete event, and the catch reports the failure of the second close
FinishThenError ==
  /\ UNCHANGED <<cli, peer, visualDesc, hook>>
  /\ pc = "after_loop"
  /\ LET s == IF isCancelled THEN Cur ELSE send(Cur, EvComplete(bestScore, bestIteration))
         t == IF s.c THEN s ELSE send(s, EvError)
     IN /\ events' = t.ev
        /\ isCancelled' = t.c
  /\ closeCalls' = closeCalls + 1
  /\ pc' = "done"
  /\ UNCHANGED <<body, readerGone, refDNA, iteration, bestScore, bestIteration,
                 previousFeedback, genDNA, calls, returns, exit, sc, variation>>

\* mutant of Finish: the complete event names the loop counter, not
\* bestIteration
FinishLastIteration ==
  /\ UNCHANGED <<cli, peer, visualDesc, hook>>
  /\ pc = "after_loop"
  /\ LET s == IF isCancelled THEN Cur ELSE send(Cur, EvComplete(bestScore, iteration))
     IN /\ events' = s.ev
        /\ isCancelled' = s.c
  /\ closeCalls' = closeCalls + 1
  /\ pc' = "done"
  /\ UNCHANGED <<body, readerGone, refDNA, iteration, bestScore, bestIteration,
                 previousFeedback, genDNA, calls, returns, exit, sc, variation>>

\* route.ts:402-413: the complete event unless cancelled; finally closes
Finish ==
  /\ UNCHANGED <<cli, peer, visualDesc, hook>>
  /\ pc = "after_loop"
  /\ LET s == IF isCancelled THEN Cur ELSE send(Cur, EvComplete(bestScore, bestIteration))
     IN /\ events' = s.ev
        /\ isCancelled' = s.c
  /\ closeCalls' = closeCalls + 1
  /\ pc' = "done"
  /\ UNCHANGED <<body, readerGone, refDNA, iteration, bestScore, bestIteration,
                 previousFeedback, genDNA, calls, returns, exit, sc, variation>>

Next ==
  \/ Abort
  \/ ReaderCancel
  \/ ParseBody
  \/ RefExtracted
  \/ LoopHead
  \/ GenThrows
  \/ GenReturns
  \/ GenDNAExtracted
  \/ Evaluated
  \/ Finish

Spec == Init /\ [][Next]_vars

\* the steps of start() itself: with every external call returning or
\* throwing in the end, and the event loop running each continuation, a
\* step of the handler that can be taken is taken
HandlerStep ==
  \/ ParseBody
  \/ RefExtracted
  \/ LoopHead
  \/ GenThrows
  \/ GenReturns
  \/ GenDNAExtracted
  \/ Evaluated
  \/ Finish

FairSpec == Init /\ [][Next]_vars /\ WF_vars(HandlerStep)

-----------------------------------------------------------------------------
(* The illustration session handler, feedback/route.ts POST (lines 89-333). *)
(* It shares send, the abort listener and the end of start() with the      *)
(* typeface handler; its reference-features event carries no warning, it   *)
(* has one evaluation call per iteration, and it ends with the colour      *)
(* variations of the best image.                                           *)

\* getDefaultIllustrationDNA, by the fields the handler and the colour
\* variations read
getDefaultIllustrationDNA ==
  [ colorPalette |-> [primary |-> "#4A90D9", accent |-> "#D0021B"],
    subjectType  |-> "object" ]

\* validateIllustrationDNA: every field of the answer, or its default
validateIllustrationDNA(data) ==
  [ colorPalette |->
      [ primary |-> IF "colorPalette" \in DOMAIN data /\ "primary" \in DOMAIN data.colorPalette
                    THEN data.colorPalette.primary
                    ELSE getDefaultIllustrationDNA.colorPalette.primary,
        accent  |-> IF "colorPalette" \in DOMAIN data /\ "accent" \in DOMAIN data.colorPalette
                    THEN data.colorPalette.accent
                    ELSE getDefaultIllustrationDNA.colorPalette.accent ],
    subjectType |-> IF "subjectType" \in DOMAIN data THEN data.subjectType
                    ELSE getDefaultIllustrationDNA.subjectType ]

\* answers of the analysis model for an illustration, parsed
IllParsed ==
  { [colorPalette |-> [primary |-> "#112233", accent |-> "#445566"],
     subjectType |-> "character"],
    [colorPalette |-> [primary |-> "#112233"]] }

\* extractIllustrationDNA: the validated answer, or the default record when
\* the call throws or the answer holds no JSON object
IllExtractOutcomes ==
  {validateIllustrationDNA(p) : p \in IllParsed} \cup {getDefaultIllustrationDNA}

\* evaluateIllustration(...).score: parsed.overallScore || 50, and 50 when
\* the call or the parse fails
IllEvalParsed == {[overallScore |-> 85], [overallScore |-> 60], [overallScore |-> 0]}

evaluateIllustrationScore(parsed) ==
  IF "overallScore" \in DOMAIN parsed /\ parsed.overallScore # 0
  THEN parsed.overallScore ELSE 50

IllEvalOutcomes == {evaluateIllustrationScore(p) : p \in IllEvalParsed} \cup {50}

\* generateColorVariations(palette, count).length: the original and up to
\* five transformed palettes
NumVariations(count) == 1 + Min2(Max2(count - 1, 0), 5)

IllBodies ==
  [ jsonOk : {TRUE}, referenceImage : {TRUE}, targetSubject : {TRUE}, apiKey : {TRUE},
    maxIterations : 0..MaxIterBound, colorVariationCount : 1..MaxColorVariations ]
  \cup
  { [jsonOk |-> FALSE, referenceImage |-> TRUE, targetSubject |-> TRUE, apiKey |-> TRUE,
     maxIterations |-> 1, colorVariationCount |-> 1],
    [jsonOk |-> TRUE, referenceImage |-> FALSE, targetSubject |-> TRUE, apiKey |-> TRUE,
     maxIterations |-> 1, colorVariationCount |-> 1],
    [jsonOk |-> TRUE, referenceImage |-> TRUE, targetSubject |-> FALSE, apiKey |-> TRUE,
     maxIterations |-> 1, colorVariationCount |-> 1],
    [jsonOk |-> TRUE, referenceImage |-> TRUE, targetSubject |-> TRUE, apiKey |-> FALSE,
     maxIterations |-> 1, colorVariationCount |-> 1] }

\* the dna event of the illustration route: dna and time, no warning field
EvIllDna == [type |-> "dna", iteration |-> 0]

EvIllEval(it, score) == [type |-> "iteration_eval", iteration |-> it, score |-> score]

\* a color_variation event; the variation is named by its position in the
\* list, 1 being the original
EvColorVariation(it, v, st, src) ==
  [ type |-> "color_variation", iteration |-> it, variation |-> v, status |-> st,
    source |-> src ]

\* sourceBase64 = bestImageBase64 || generatedImageBase64 (feedback/route.ts:
\* 262), named by the iteration that generated the image: bestImageBase64 is
\* assigned together with bestIteration (245-249)
SourceImage(best, it) == IF best > 0 THEN best ELSE it

IllInit ==
  /\ pc = "ill_json"
  /\ body \in IllBodies
  /\ isCancelled = FALSE
  /\ readerGone = FALSE
  /\ events = <<>>
  /\ closeCalls = 0
  /\ refDNA = getDefaultIllustrationDNA
  /\ visualDesc = NoVisualDesc
  /\ iteration = 0
  /\ bestScore = 0
  /\ bestIteration = 0
  /\ previousFeedback = NoFeedback
  /\ genDNA = getDefaultIllustrationDNA
  /\ calls = <<>>
  /\ returns = <<>>
  /\ exit = "running"
  /\ sc = [phase |-> "off"]
  /\ variation = 0
  /\ cli = CliOff
  /\ peer = NoPeer
  /\ hook = HookOff

\* feedback/route.ts:113-159: body parsed, inputs validated, first events,
\* and the reference analysis started
IllParseBody ==
  /\ UNCHANGED <<cli, peer, visualDesc, hook>>
  /\ pc = "ill_json"
  /\ UNCHANGED <<body, readerGone, refDNA, iteration, bestScore, bestIteration,
                 previousFeedback, genDNA, returns, sc, variation>>
  /\ IF ~body.jsonOk
     THEN Thrown /\ UNCHANGED calls
     ELSE IF ~body.referenceImage \/ ~body.targetSubject \/ ~body.apiKey
     THEN EarlyReturn(send(Cur, EvError), "error") /\ UNCHANGED calls
     ELSE LET s1 == send(Cur, EvStatus("uploading", 0))
              s2 == send(s1, EvSession)
              s3 == send(s2, EvStatus("analyzing", 0))
          IN IF s1.c \/ s2.c
             THEN EarlyReturn(s2, "cancelled") /\ UNCHANGED calls
             ELSE /\ events' = s3.ev
                  /\ isCancelled' = s3.c
                  /\ calls' = Append(calls, Call("extractIllustrationDNA", 0, NoFeedback))
                  /\ pc' = "ill_ref"
                  /\ UNCHANGED <<closeCalls, exit>>

\* feedback/route.ts:159-181: the reference DNA arrives; the dna event
IllRefExtracted ==
  /\ UNCHANGED <<cli, peer, visualDesc, hook>>
  /\ pc = "ill_ref"
  /\ UNCHANGED <<body, readerGone, bestScore, bestIteration, previousFeedback,
                 genDNA, calls, returns, sc, variation>>
  /\ \E dna \in IllExtractOutcomes :
        /\ refDNA' = dna
        /\ IF isCancelled
           THEN EarlyReturn(Cur, "cancelled") /\ UNCHANGED iteration
           ELSE LET s == send(Cur, EvIllDna)
                IN /\ events' = s.ev
                   /\ isCancelled' = s.c
                   /\ iteration' = 1
                   /\ pc' = "ill_loop"
                   /\ UNCHANGED <<closeCalls, exit>>

\* feedback/route.ts:183-203: loop condition, cancellation check, events,
\* second check, and the generation call is started
IllLoopHead ==
  /\ UNCHANGED <<cli, peer, visualDesc, hook>>
  /\ pc = "ill_loop"
  /\ UNCHANGED <<body, readerGone, closeCalls, refDNA, iteration, bestScore,
                 bestIteration, previousFeedback, genDNA, returns, sc, variation>>
  /\ IF iteration > body.maxIterations
     THEN /\ pc' = "after_loop"
          /\ exit' = "exhausted"
          /\ UNCHANGED <<events, isCancelled, calls>>
     ELSE IF isCancelled
     THEN /\ pc' = "after_loop"
          /\ exit' = "cancelled"
          /\ UNCHANGED <<events, isCancelled, calls>>
     ELSE LET s1 == send(Cur, EvIterationStart(iteration))
              s2 == send(s1, EvStatus("generating", iteration))
          IN /\ events' = s2.ev
             /\ isCancelled' = s2.c
             /\ IF s2.c
                THEN /\ pc' = "after_loop"
                     /\ exit' = "cancelled"
                     /\ UNCHANGED calls
                ELSE /\ pc' = "ill_gen"
                     /\ calls' = Append(calls, Call("generateIllustration", iteration, NoFeedback))
                     /\ UNCHANGED exit

\* feedback/route.ts:204-208: generateIllustration throws
IllGenThrows ==
  /\ UNCHANGED <<cli, peer, visualDesc, hook>>
  /\ pc = "ill_gen"
  /\ returns' = Append(returns, [iteration |-> iteration, ok |-> FALSE])
  /\ UNCHANGED <<body, readerGone, closeCalls, refDNA, bestScore, bestIteration,
                 previousFeedback, genDNA, calls, sc, variation>>
  /\ IF isCancelled
     THEN /\ pc' = "after_loop"
          /\ exit' = "cancelled"
          /\ UNCHANGED <<events, isCancelled, iteration>>
     ELSE LET s == send(Cur, EvIterationError(iteration))
          IN /\ events' = s.ev
             /\ isCancelled' = s.c
             /\ iteration' = iteration + 1
             /\ pc' = "ill_loop"
             /\ UNCHANGED exit

\* feedback/route.ts:209-232: an image arrives; iteration_image and status
\* events, then the evaluation is started
IllGenReturns ==
  /\ UNCHANGED <<cli, peer, visualDesc, hook>>
  /\ pc = "ill_gen"
  /\ returns' = Append(returns, [iteration |-> iteration, ok |-> TRUE])
  /\ UNCHANGED <<body, readerGone, closeCalls, refDNA, iteration, bestScore,
                 bestIteration, previousFeedback, genDNA, sc, variation>>
  /\ IF isCancelled
     THEN /\ pc' = "after_loop"
          /\ exit' = "cancelled"
          /\ UNCHANGED <<events, isCancelled, calls>>
     ELSE LET s1 == send(Cur, EvIterationImage(iteration))
              s2 == send(s1, EvStatus("evaluating", iteration))
          IN IF s1.c
             THEN /\ events' = s1.ev
                  /\ isCancelled' = s1.c
                  /\ pc' = "after_loop"
                  /\ exit' = "cancelled"
                  /\ UNCHANGED calls
             ELSE /\ events' = s2.ev
                  /\ isCancelled' = s2.c
                  /\ calls' = Append(calls, Call("evaluateIllustration", iteration, NoFeedback))
                  /\ pc' = "ill_eval"
                  /\ UNCHANGED exit

\* feedback/route.ts:264-309, the for-of loop over the variations from
\* position v on (v >= 2), on the stream pair s: leave when the list is
\* used up or the session is cancelled, else announce variation v and
\* start its generation
VariationLoop(s, v, how) ==
  IF v > NumVariations(body.colorVariationCount) \/ s.c
  THEN /\ events' = s.ev
       /\ isCancelled' = s.c
       /\ variation' = 0
       /\ pc' = "after_loop"
       /\ exit' = (IF s.c THEN "cancelled" ELSE how)
       /\ UNCHANGED calls
  ELSE LET s1 == send(s, EvColorVariation(iteration, v, "generating",
                                           SourceImage(bestIteration', iteration)))
       IN /\ events' = s1.ev
          /\ isCancelled' = s1.c
          /\ variation' = v
          /\ pc' = "ill_var"
          /\ exit' = how
          /\ calls' = Append(calls, Call("generateColorVariationImage", iteration, NoFeedback))

\* feedback/route.ts:232-278: the evaluation arrives; iteration_eval event,
\* best-result update, and on the last index or a score of 85 and more the
\* colour variations are begun with the original
IllEvaluated ==
  /\ UNCHANGED <<cli, peer, visualDesc, hook>>
  /\ pc = "ill_eval"
  /\ UNCHANGED <<body, readerGone, closeCalls, refDNA, previousFeedback, genDNA,
                 returns, sc>>
  /\ \E score \in IllEvalOutcomes :
        IF isCancelled
        THEN /\ pc' = "after_loop"
             /\ exit' = "cancelled"
             /\ UNCHANGED <<events, isCancelled, iteration, bestScore, bestIteration,
                            calls, variation>>
        ELSE LET s1 == send(Cur, EvIllEval(iteration, score))
                 b  == BestUpdate(bestScore, bestIteration, score, iteration)
                 s2 == send(s1, EvStatus("generating", iteration))
                 s3 == send(s2, EvColorVariation(iteration, 1, "complete",
                                            SourceImage(b[2], iteration)))
             IN /\ bestScore' = b[1]
                /\ bestIteration' = b[2]
                /\ IF iteration = body.maxIterations \/ score >= 85
                   THEN /\ UNCHANGED iteration
                        /\ VariationLoop(s3, 2,
                              IF score >= 85 THEN "converged" ELSE "exhausted")
                   ELSE /\ events' = s1.ev
                        /\ isCancelled' = s1.c
                        /\ iteration' = iteration + 1
                        /\ pc' = "ill_loop"
                        /\ UNCHANGED <<exit, calls, variation>>

\* feedback/route.ts:288-309: a colour variation image arrives or its
\* generation throws; its color_variation event, then the next variation
IllVariationDone ==
  /\ UNCHANGED <<cli, peer, visualDesc, hook>>
  /\ pc = "ill_var"
  /\ UNCHANGED <<body, readerGone, closeCalls, refDNA, iteration, bestScore,
                 bestIteration, previousFeedback, genDNA, returns, sc>>
  /\ \E st \in {"complete", "error"} :
        VariationLoop(send(Cur, EvColorVariation(iteration, variation, st,
                                                 SourceImage(bestIteration, iteration))),
                      variation + 1, exit)

IllNext ==
  \/ Abort
  \/ ReaderCancel
  \/ IllParseBody
  \/ IllRefExtracted
  \/ IllLoopHead
  \/ IllGenThrows
  \/ IllGenReturns
  \/ IllEvaluated
  \/ IllVariationDone
  \/ Finish

IllSpec == IllInit /\ [][IllNext]_vars

-----------------------------------------------------------------------------
(* The scoring step on its own: lines 339-363 applied to drawn inputs *)

\* sub-scores the evaluation model may report, out-of-range ones included
ScoreGrid == {-50, 0, 10, 20, 30, 40, 45, 50, 55, 60, 70, 80, 90, 100, 300}

BenchRefParsed == {ParsedCustom, ParsedStandard}

BenchGenParsed ==
  {ParsedCustom, ParsedFar, ParsedStandard, ParsedEmptyStroke, ParsedNullDetection}

\* the evaluator's result for the drawn sub-scores
BenchEval(v, a, std) ==
  evaluateVisualSimilarity([similarityScore |-> v, textAccuracy |-> a,
                            isGeneratedStandardFont |-> std])

ScoreInit ==
  /\ pc = "bench"
  /\ body = [jsonOk |-> TRUE, referenceImage |-> TRUE, targetText |-> TRUE,
             apiKey |-> TRUE, maxIterations |-> 0]
  /\ isCancelled = FALSE
  /\ readerGone = FALSE
  /\ events = <<>>
  /\ closeCalls = 0
  /\ refDNA = getDefaultDNA
  /\ visualDesc = NoVisualDesc
  /\ iteration = 0
  /\ bestScore = 0
  /\ bestIteration = 0
  /\ previousFeedback = NoFeedback
  /\ genDNA = getDefaultDNA
  /\ calls = <<>>
  /\ returns = <<>>
  /\ exit = "running"
  /\ variation = 0
  /\ cli = CliOff
  /\ peer = NoPeer
  /\ hook = HookOff
  /\ sc \in [ phase : {"input"},
              ref : ExtractOutcomes(BenchRefParsed),
              gen : ExtractOutcomes(BenchGenParsed),
              similarityScore : ScoreGrid,
              textAccuracy : ScoreGrid ]

\* the scoring step run twice on the same reference, candidate and
\* sub-scores: once with isGeneratedStandardFont true, once with it false
ScoreApply ==
  /\ UNCHANGED <<cli, peer, visualDesc, hook>>
  /\ sc.phase = "input"
  /\ sc' = [ phase |-> "scored", ref |-> sc.ref, gen |-> sc.gen,
             similarityScore |-> sc.similarityScore,
             textAccuracy |-> sc.textAccuracy,
             reported |-> ScoreStep(sc.ref, sc.gen,
                            BenchEval(sc.similarityScore, sc.textAccuracy, TRUE)),
             clear |-> ScoreStep(sc.ref, sc.gen,
                            BenchEval(sc.similarityScore, sc.textAccuracy, FALSE)) ]
  /\ UNCHANGED <<pc, body, isCancelled, readerGone, events, closeCalls, refDNA,
                 iteration, bestScore, bestIteration, previousFeedback, genDNA,
                 calls, returns, exit, variation>>

ScoreNext == ScoreApply

ScoreSpec == ScoreInit /\ [][ScoreNext]_vars

-----------------------------------------------------------------------------
(* compareDNA and safeDiff on their own, applied to drawn inputs *)

\* analysis answers the two records are built from
CompareParsed ==
  { ParsedCustom, ParsedFar, ParsedStandard, ParsedEmptyStroke, ParsedNullDetection,
    ParsedStrokeOnly, ParsedNullGeometry, ParsedNoFeatures, ParsedEmptyTop5 }

\* numbers handed to safeDiff, in units of 1/Scale: negatives, zero,
\* magnitudes below and above 1
DiffNums == {-300, -15, -10, -5, 0, 3, 5, 10, 15, 300}

CompareInit ==
  /\ pc = "bench"
  /\ body = [jsonOk |-> TRUE, referenceImage |-> TRUE, targetText |-> TRUE,
             apiKey |-> TRUE, maxIterations |-> 0]
  /\ isCancelled = FALSE
  /\ readerGone = FALSE
  /\ events = <<>>
  /\ closeCalls = 0
  /\ refDNA = getDefaultDNA
  /\ visualDesc = NoVisualDesc
  /\ iteration = 0
  /\ bestScore = 0
  /\ bestIteration = 0
  /\ previousFeedback = NoFeedback
  /\ genDNA = getDefaultDNA
  /\ calls = <<>>
  /\ returns = <<>>
  /\ exit = "running"
  /\ variation = 0
  /\ cli = CliOff
  /\ peer = NoPeer
  /\ hook = HookOff
  /\ sc \in [ phase : {"dna"},
              ref : ExtractOutcomes(CompareParsed),
              gen : ExtractOutcomes(CompareParsed) ]
            \cup
            [ phase : {"diff"}, a : DiffNums, b : DiffNums ]

\* compareDNA(ref, gen): whether it throws, and the overallScore it returns
CompareApply ==
  /\ UNCHANGED <<cli, peer, visualDesc, hook>>
  /\ sc.phase = "dna"
  /\ sc' = [ phase |-> "compared", ref |-> sc.ref, gen |-> sc.gen,
             threw |-> CompareThrows(sc.ref, sc.gen),
             overallScore |-> IF CompareThrows(sc.ref, sc.gen) THEN 0
                              ELSE compareDNA(sc.ref, sc.gen) ]
  /\ UNCHANGED <<pc, body, isCancelled, readerGone, events, closeCalls, refDNA,
                 iteration, bestScore, bestIteration, previousFeedback, genDNA,
                 calls, returns, exit, variation>>

\* safeDiff on a pair of numbers, both ways round and on equal arguments
DiffApply ==
  /\ UNCHANGED <<cli, peer, visualDesc, hook>>
  /\ sc.phase = "diff"
  /\ sc' = [ phase |-> "diffed", a |-> sc.a, b |-> sc.b,
             ab |-> safeDiff(sc.a, sc.b),
             ba |-> safeDiff(sc.b, sc.a),
             aa |-> safeDiff(sc.a, sc.a) ]
  /\ UNCHANGED <<pc, body, isCancelled, readerGone, events, closeCalls, refDNA,
                 iteration, bestScore, bestIteration, previousFeedback, genDNA,
                 calls, returns, exit, variation>>

CompareNext ==
  \/ CompareApply
  \/ DiffApply

CompareSpec == CompareInit /\ [][CompareNext]_vars

-----------------------------------------------------------------------------
(* detectScript on its own, applied to drawn texts *)

\* largest length of a drawn text, in UTF-16 code units
MaxTextLen == 2

\* /[\u3040-\u309F\u30A0-\u30FF\u4E00-\u9FAF]/ as a set of code units
japaneseRegex == (12352..12447) \cup (12448..12543) \cup (19968..40879)

\* /[a-zA-Z]/ as a set of code units
latinRegex == (97..122) \cup (65..90)

\* regex.test(text) for a one-character class: some code unit of the text
\* is in the class
RECURSIVE RegexTest(_, _, _)
RegexTest(class, text, i) ==
  IF i > Len(text) THEN FALSE
  ELSE IF text[i] \in class THEN TRUE
  ELSE RegexTest(class, text, i + 1)

\* detectScript (route.ts:13-23)
detectScript(text) ==
  IF RegexTest(japaneseRegex, text, 1) /\ RegexTest(latinRegex, text, 1) THEN "mixed"
  ELSE IF RegexTest(japaneseRegex, text, 1) THEN "japanese"
  ELSE "latin"

\* code units the drawn texts are made of: the ends of each range of the
\* two classes and their neighbours, and characters of other blocks
TextChars ==
  { 32,     \* space
    49,     \* 1
    64,     \* @, before A
    65,     \* A
    90,     \* Z
    91,     \* [, after Z
    96,     \* `, before a
    97,     \* a
    122,    \* z
    123,    \* {, after z
    12351,  \* U+303F, before the hiragana block
    12352,  \* U+3040, first of the hiragana block
    12354,  \* U+3042 hiragana A
    12447,  \* U+309F, last of the hiragana block
    12450,  \* U+30A2 katakana A
    12543,  \* U+30FF, last of the katakana block
    12544,  \* U+3100, after the katakana block
    13312,  \* U+3400, an ideograph of CJK extension A
    19967,  \* U+4DFF, before the CJK unified ideographs
    19968,  \* U+4E00, first CJK unified ideograph
    40879,  \* U+9FAF
    40880,  \* U+9FB0, a CJK unified ideograph
    65313,  \* U+FF21 fullwidth Latin A
    65393 } \* U+FF71 halfwidth katakana A

\* the texts of length n
TextsOfLen(n) == [1..n -> TextChars]

DetectInit ==
  /\ pc = "bench"
  /\ body = [jsonOk |-> TRUE, referenceImage |-> TRUE, targetText |-> TRUE,
             apiKey |-> TRUE, maxIterations |-> 0]
  /\ isCancelled = FALSE
  /\ readerGone = FALSE
  /\ events = <<>>
  /\ closeCalls = 0
  /\ refDNA = getDefaultDNA
  /\ visualDesc = NoVisualDesc
  /\ iteration = 0
  /\ bestScore = 0
  /\ bestIteration = 0
  /\ previousFeedback = NoFeedback
  /\ genDNA = getDefaultDNA
  /\ calls = <<>>
  /\ returns = <<>>
  /\ exit = "running"
  /\ variation = 0
  /\ cli = CliOff
  /\ peer = NoPeer
  /\ hook = HookOff
  /\ \E n \in 0..MaxTextLen : \E t \in TextsOfLen(n) :
        sc = [phase |-> "text", text |-> t]

\* const scriptType = detectScript(targetText) (route.ts:226)
DetectApply ==
  /\ UNCHANGED <<cli, peer, visualDesc, hook>>
  /\ sc.phase = "text"
  /\ sc' = [phase |-> "detected", text |-> sc.text, scriptType |-> detectScript(sc.text)]
  /\ UNCHANGED <<pc, body, isCancelled, readerGone, events, closeCalls, refDNA,
                 iteration, bestScore, bestIteration, previousFeedback, genDNA,
                 calls, returns, exit, variation>>

DetectNext == DetectApply

DetectSpec == DetectInit /\ [][DetectNext]_vars

-----------------------------------------------------------------------------
(* The command-line program: runParallelStrategies starts one               *)
(* runForgingProcess per strategy; the sessions run interleaved at their   *)
(* awaits and share the reference-feature cache of evaluateConsistency.    *)

\* largest number of strategies handed to runParallelStrategies
MaxStrategies == 2

\* the strategies of the forge command, in its order (index.ts:83)
StrategyList == <<"structural", "tool_based", "negative_space">>

\* cfg.maxIterations of a run
CliMaxIterations == {1, 2}

\* DEFAULT_CONFIG.convergenceThreshold
convergenceThreshold == 85

\* diff.overallScore of compareFeatures: Math.max(0, Math.round(score)),
\* NaN when a ratio of the features is 0/0
CliScores == {0, 50, 90, NaN}

\* cachedReferenceFeatures = null
NoFeatures == "null"

\* the reference image of the run, and another image analysed before it in
\* the same process
RefPath == "ref.png"

OtherPath == "other.png"

\* extractFeatures(path): the features are named by the image they were
\* measured on
FeaturesOf(path) == path

\* no copy to finalOutputPath was attempted (iteration indices start at 1)
NoCopy == 0

\* iterations[k] for an index past the end of the array: no record
Undefined == -1

\* iterations[bestIteration - 1] (geminiClient.ts:518): the iteration whose
\* record holds that place of the array (places counted from 1 here)
CopySource(iterations, best) ==
  IF best \in DOMAIN iterations THEN iterations[best] ELSE Undefined

\* a session of runForgingProcess suspended at analyzeDNA, or rejected by
\* createSessionDirectory throwing
NewSession(strategy, ok) ==
  [ strategy |-> strategy, pc |-> IF ok THEN "analyzeDNA" ELSE "rejected",
    iteration |-> 0, bestScore |-> 0, bestIteration |-> 0, iterations |-> <<>>,
    refFeatures |-> NoFeatures, finalScore |-> 0, copied |-> NoCopy ]

\* the cache as earlier calls of the process left it: empty, holding the
\* features of another image, or holding those of this run's reference
CacheStates ==
  { [cachedReferencePath |-> "", cachedReferenceFeatures |-> NoFeatures, extracted |-> 0],
    [cachedReferencePath |-> OtherPath, cachedReferenceFeatures |-> FeaturesOf(OtherPath),
     extracted |-> 0],
    [cachedReferencePath |-> RefPath, cachedReferenceFeatures |-> FeaturesOf(RefPath),
     extracted |-> 1] }

\* geminiClient.ts:515-541, after the loop: the best image is copied,
\* iterations[bestIteration - 1] being undefined (a TypeError) when fewer
\* iterations were recorded than bestIteration; the result is saved and
\* returned with finalScore = bestScore.  fsOk: the file operations succeed.
AfterLoop(s, fsOk) ==
  LET t == IF Len(s.iterations) > 0 /\ s.bestIteration > 0
           THEN [s EXCEPT !.copied = CopySource(s.iterations, s.bestIteration)]
           ELSE s
  IN IF t.copied = Undefined THEN [t EXCEPT !.pc = "rejected"]
     ELSE IF ~fsOk THEN [t EXCEPT !.pc = "rejected"]
     ELSE [t EXCEPT !.pc = "fulfilled", !.finalScore = s.bestScore]

\* geminiClient.ts:441-459, the loop head: the next generation is started,
\* or the loop is left
ForLoop(s, fsOk) ==
  IF s.iteration <= cli.maxIterations
  THEN [s EXCEPT !.pc = "generate"]
  ELSE AfterLoop(s, fsOk)

\* geminiClient.ts:487-512: best update, iterations.push,
\* saveIterationDetails, convergence test
Record(s, score, fsOk) ==
  LET b == BestUpdate(s.bestScore, s.bestIteration, score, s.iteration)
      t == [s EXCEPT !.bestScore = b[1], !.bestIteration = b[2],
                     !.iterations = Append(s.iterations, s.iteration),
                     !.refFeatures = NoFeatures]
  IN IF ~fsOk THEN [t EXCEPT !.pc = "rejected"]
     ELSE IF Ge(score, convergenceThreshold) THEN AfterLoop(t, fsOk)
     ELSE ForLoop([t EXCEPT !.iteration = s.iteration + 1], fsOk)

Sessions == DOMAIN cli.sess

CliInit ==
  /\ pc = "bench"
  /\ body = [jsonOk |-> TRUE, referenceImage |-> TRUE, targetText |-> TRUE,
             apiKey |-> TRUE, maxIterations |-> 0]
  /\ isCancelled = FALSE
  /\ readerGone = FALSE
  /\ events = <<>>
  /\ closeCalls = 0
  /\ refDNA = getDefaultDNA
  /\ visualDesc = NoVisualDesc
  /\ iteration = 0
  /\ bestScore = 0
  /\ bestIteration = 0
  /\ previousFeedback = NoFeedback
  /\ genDNA = getDefaultDNA
  /\ calls = <<>>
  /\ returns = <<>>
  /\ exit = "running"
  /\ variation = 0
  /\ sc = [phase |-> "off"]
  /\ peer = NoPeer
  /\ hook = HookOff
  /\ \E n \in 0..MaxStrategies : \E oks \in [1..n -> BOOLEAN] :
     \E m \in CliMaxIterations : \E c \in CacheStates :
        cli = [ phase |-> "running",
                referenceImagePath |-> RefPath,
                strategies |-> [i \in 1..n |-> StrategyList[i]],
                maxIterations |-> m,
                sess |-> [i \in 1..n |-> NewSession(StrategyList[i], oks[i])],
                cachedReferencePath |-> c.cachedReferencePath,
                cachedReferenceFeatures |-> c.cachedReferenceFeatures,
                extracted |-> c.extracted,
                bestResult |-> 0,
                allResults |-> {} ]

RestUnchanged ==
  UNCHANGED <<pc, body, isCancelled, readerGone, events, closeCalls, refDNA,
              iteration, bestScore, bestIteration, previousFeedback, genDNA,
              calls, returns, exit, sc, variation, peer, visualDesc, hook>>

\* geminiClient.ts:426-441: analyzeDNA returns or throws (a default DNA is
\* used then), and the loop is entered
DnaAnalyzed(i) ==
  /\ cli.phase = "running"
  /\ cli.sess[i].pc = "analyzeDNA"
  /\ \E fsOk \in BOOLEAN :
        cli' = [cli EXCEPT !.sess[i] = ForLoop([@ EXCEPT !.iteration = 1], fsOk)]
  /\ RestUnchanged

\* geminiClient.ts:450-464: generateIterationImage throws, the loop goes on
GenerationFailed(i) ==
  /\ cli.phase = "running"
  /\ cli.sess[i].pc = "generate"
  /\ \E fsOk \in BOOLEAN :
        cli' = [cli EXCEPT !.sess[i] = ForLoop([@ EXCEPT !.iteration = @ + 1], fsOk)]
  /\ RestUnchanged

\* geminiClient.ts:450-472 and qualityCritic evaluateConsistency
\* (index.ts:430-436): the image arrives and evaluateConsistency is
\* called; on a cache hit its features are taken, else the extraction of
\* the reference features is started
GenerationDone(i) ==
  /\ cli.phase = "running"
  /\ cli.sess[i].pc = "generate"
  /\ cli' = IF cli.cachedReferencePath = cli.referenceImagePath
               /\ cli.cachedReferenceFeatures # NoFeatures
            THEN [cli EXCEPT !.sess[i].refFeatures = cli.cachedReferenceFeatures,
                             !.sess[i].pc = "extractGenerated"]
            ELSE [cli EXCEPT !.sess[i].pc = "extractReference"]
  /\ RestUnchanged

\* index.ts:436-443: the reference features arrive and are cached, and the
\* extraction of the generated image's features is started; or the
\* extraction throws, evaluateConsistency rejects and the iteration is
\* recorded with score 0 (geminiClient.ts:473-485)
ReferenceExtracted(i) ==
  /\ cli.phase = "running"
  /\ cli.sess[i].pc = "extractReference"
  /\ \/ cli' = [cli EXCEPT !.sess[i].refFeatures = FeaturesOf(cli.referenceImagePath),
                           !.sess[i].pc = "extractGenerated",
                           !.cachedReferenceFeatures = FeaturesOf(cli.referenceImagePath),
                           !.cachedReferencePath = cli.referenceImagePath,
                           !.extracted = @ + 1]
     \/ \E fsOk \in BOOLEAN :
           cli' = [cli EXCEPT !.sess[i] = Record(@, 0, fsOk)]
  /\ RestUnchanged

\* index.ts:443-460 and geminiClient.ts:466-512: the generated image's
\* features arrive and the score is computed, or the extraction throws and
\* the score is 0; the iteration is recorded
GeneratedExtracted(i) ==
  /\ cli.phase = "running"
  /\ cli.sess[i].pc = "extractGenerated"
  /\ \E score \in CliScores : \E fsOk \in BOOLEAN :
        cli' = [cli EXCEPT !.sess[i] = Record(@, score, fsOk)]
  /\ RestUnchanged

\* results[i]: the session's result, or null for a session that rejected
\* (the .catch(() => null) of geminiClient.ts:577)
ResultOf(s) == IF s.pc = "fulfilled" THEN [strategy |-> s.strategy, finalScore |-> s.finalScore]
               ELSE [strategy |-> "null", finalScore |-> 0]

\* mutant of ForEachBest: >= for >, a later strategy wins a tie
RECURSIVE ForEachBestOnTie(_, _, _)
ForEachBestOnTie(sess, i, best) ==
  IF i > Len(sess) THEN best
  ELSE IF sess[i].pc = "fulfilled"
          /\ (best = 0 \/ sess[i].finalScore >= sess[best].finalScore)
       THEN ForEachBestOnTie(sess, i + 1, i)
       ELSE ForEachBestOnTie(sess, i + 1, best)

\* geminiClient.ts:583-589, strategies.forEach from index i on: the index
\* of bestResult (0 for null)
RECURSIVE ForEachBest(_, _, _)
ForEachBest(sess, i, best) ==
  IF i > Len(sess) THEN best
  ELSE IF sess[i].pc = "fulfilled"
          /\ (best = 0 \/ sess[i].finalScore > sess[best].finalScore)
       THEN ForEachBest(sess, i + 1, i)
       ELSE ForEachBest(sess, i + 1, best)

\* geminiClient.ts:576-593: every session has settled, Promise.all
\* resolves; allResults and bestResult are built, or the call throws
Collect ==
  /\ cli.phase = "running"
  /\ \A i \in Sessions : cli.sess[i].pc \in {"fulfilled", "rejected"}
  /\ \E b \in {ForEachBest(cli.sess, 1, 0)} :
        cli' = [cli EXCEPT !.phase = IF b = 0 THEN "thrown" ELSE "returned",
                           !.bestResult = b,
                           !.allResults = {ResultOf(cli.sess[i]) :
                                             i \in {j \in Sessions : cli.sess[j].pc = "fulfilled"}}]
  /\ RestUnchanged

CliNext ==
  \/ \E i \in Sessions : DnaAnalyzed(i)
  \/ \E i \in Sessions : GenerationFailed(i)
  \/ \E i \in Sessions : GenerationDone(i)
  \/ \E i \in Sessions : ReferenceExtracted(i)
  \/ \E i \in Sessions : GeneratedExtracted(i)
  \/ Collect

CliSpec == CliInit /\ [][CliNext]_vars

-----------------------------------------------------------------------------
(* The caller's session state: handleMessage of TypefaceGenerator and of   *)
(* IllustrationGenerator applied to the messages of the stream in order.   *)
(* Of the session state the status and the iterations list are kept; an   *)
(* absent score is -1, an absent imageUrl is FALSE.                        *)

\* the state set by handleSubmit: no iteration yet
ClientInitial == [status |-> "uploading", iterations |-> <<>>]

\* a new entry of the iterations list
ClientIteration(it, st, img) ==
  [ iteration |-> it, status |-> st, imageUrl |-> img, score |-> -1,
    colorVariations |-> <<>> ]

\* mutant of ClientExists: the list is not searched, no record is found
ClientExistsNever(iters, it) == FALSE

\* prev.iterations.find(i => i.iteration === data.iteration) is defined
ClientExists(iters, it) == \E j \in DOMAIN iters : iters[j].iteration = it

\* mutant of ApplyColorVariation: the record also takes the variation's
\* status
ApplyColorVariationStatus(rec, v) ==
  LET old == rec.colorVariations
      at  == {j \in DOMAIN old : old[j].id = v.id}
  IN [rec EXCEPT !.status = v.status,
                 !.colorVariations =
                    IF at # {} THEN [j \in DOMAIN old |->
                                        IF j = CHOOSE m \in at : \A n \in at : m <= n
                                        THEN v ELSE old[j]]
                    ELSE Append(old, v)]

\* part_001:136-153: the variation v replaces the first entry of the same id
\* in the record's colorVariations, or is pushed at the end
ApplyColorVariation(rec, v) ==
  LET old == rec.colorVariations
      at  == {j \in DOMAIN old : old[j].id = v.id}
  IN [rec EXCEPT !.colorVariations =
                    IF at # {} THEN [j \in DOMAIN old |->
                                        IF j = CHOOSE m \in at : \A n \in at : m <= n
                                        THEN v ELSE old[j]]
                    ELSE Append(old, v)]

\* handleMessage(data) on the state prev.  kind is "typeface"
\* (TypefaceGenerator.tsx:39-143) or "illustration" (part_001:50-189); the
\* two differ in the color_variation branch, which only the second has.
handleMessage(kind, prev, data) ==
  LET iters == prev.iterations
  IN CASE data.type = "status" ->
            [prev EXCEPT !.status = data.status]
       [] data.type = "iteration_start" ->
            IF ClientExists(iters, data.iteration) THEN prev
            ELSE [prev EXCEPT !.iterations =
                    <<ClientIteration(data.iteration, "generating", FALSE)>> \o iters]
       [] data.type = "iteration_image" ->
            IF ClientExists(iters, data.iteration)
            THEN [prev EXCEPT !.iterations =
                    [j \in DOMAIN iters |->
                       IF iters[j].iteration = data.iteration
                       THEN [iters[j] EXCEPT !.imageUrl = TRUE, !.status = "evaluating"]
                       ELSE iters[j]]]
            ELSE [prev EXCEPT !.iterations =
                    <<ClientIteration(data.iteration, "evaluating", TRUE)>> \o iters]
       [] data.type = "iteration_eval" ->
            [prev EXCEPT !.iterations =
               [j \in DOMAIN iters |->
                  IF iters[j].iteration = data.iteration
                  THEN [iters[j] EXCEPT !.score = data.score, !.status = "complete"]
                  ELSE iters[j]]]
       [] data.type = "color_variation" /\ kind = "illustration" ->
            IF ~ClientExists(iters, data.iteration) THEN prev
            ELSE LET idx == CHOOSE m \in DOMAIN iters :
                               /\ iters[m].iteration = data.iteration
                               /\ \A n \in DOMAIN iters :
                                     iters[n].iteration = data.iteration => m <= n
                 IN [prev EXCEPT !.iterations[idx] =
                       ApplyColorVariation(@, [id |-> data.variation, status |-> data.status])]
       [] data.type = "iteration_error" ->
            [prev EXCEPT !.iterations =
               [j \in DOMAIN iters |->
                  IF iters[j].iteration = data.iteration
                  THEN [iters[j] EXCEPT !.status = "error"]
                  ELSE iters[j]]]
       [] data.type = "complete" -> [prev EXCEPT !.status = "complete"]
       [] data.type = "error" -> [prev EXCEPT !.status = "error"]
       [] OTHER -> prev

\* the handler that reads the stream of the session: the illustration
\* request carries targetSubject, the typeface request targetText
ClientKind == IF "targetSubject" \in DOMAIN body THEN "illustration" ELSE "typeface"

\* the session state after the first k messages of the stream
RECURSIVE SessionAfter(_, _, _)
SessionAfter(kind, evs, k) ==
  IF k = 0 THEN ClientInitial
  ELSE handleMessage(kind, SessionAfter(kind, evs, k - 1), evs[k])

-----------------------------------------------------------------------------
(* handleMessage on its own, applied to drawn messages in any order: the   *)
(* iteration messages of the stream for the indices 1..MaxClientIndex,     *)
(* with repeats and without the order the server keeps.                    *)

MaxMessages == 4

MaxClientIndex == 2

\* the messages drawn: the four iteration events of each index
ClientMessages ==
  { [type |-> t, iteration |-> i, score |-> 70] :
      t \in {"iteration_start", "iteration_image", "iteration_eval", "iteration_error"},
      i \in 1..MaxClientIndex }

ClientInit ==
  /\ pc = "bench"
  /\ body = [jsonOk |-> TRUE, referenceImage |-> TRUE, targetText |-> TRUE,
             apiKey |-> TRUE, maxIterations |-> 0]
  /\ isCancelled = FALSE
  /\ readerGone = FALSE
  /\ events = <<>>
  /\ closeCalls = 0
  /\ refDNA = getDefaultDNA
  /\ visualDesc = NoVisualDesc
  /\ iteration = 0
  /\ bestScore = 0
  /\ bestIteration = 0
  /\ previousFeedback = NoFeedback
  /\ genDNA = getDefaultDNA
  /\ calls = <<>>
  /\ returns = <<>>
  /\ exit = "running"
  /\ variation = 0
  /\ cli = CliOff
  /\ peer = NoPeer
  /\ hook = HookOff
  /\ sc = [phase |-> "client", session |-> ClientInitial, received |-> <<>>]

\* onMessage(data): one message is handed to handleMessage
\* (TypefaceGenerator.tsx:155-159, page.tsx:330-397)
ClientReceive ==
  /\ UNCHANGED <<cli, peer, visualDesc, hook>>
  /\ sc.phase = "client"
  /\ Len(sc.received) < MaxMessages
  /\ \E data \in ClientMessages :
        sc' = [sc EXCEPT !.session = handleMessage("typeface", @, data),
                         !.received = Append(@, data)]
  /\ UNCHANGED <<pc, body, isCancelled, readerGone, events, closeCalls, refDNA,
                 iteration, bestScore, bestIteration, previousFeedback, genDNA,
                 calls, returns, exit, variation>>

ClientNext == ClientReceive

ClientSpec == ClientInit /\ [][ClientNext]_vars

-----------------------------------------------------------------------------
(* The stream hook, useSSEStream.start: the frames the server enqueues     *)
(* (send, route.ts:196-205) as bytes, and the read loop of the hook        *)
(* (useSSEStream.ts:67-94) on those bytes, chunk by chunk.  A character is *)
(* a one-element name; the only multi-byte character drawn is U+00E9.      *)

MaxEvents == 2

\* the character \n
LF == "LF"

\* the characters of 'data: '
DataPrefix == <<"d", "a", "t", "a", ":", " ">>

\* the events sent, each named by the text it carries: empty, a letter, a
\* line feed, a backslash followed by n, U+00E9, two line feeds
SseTexts == { <<>>, <<"x">>, <<LF>>, <<"bs", "n">>, <<"e_acute">>, <<LF, LF>> }

\* JSON.stringify of one character of a string
EscapeChar(c) ==
  IF c = LF THEN <<"bs", "n">>
  ELSE IF c = "bs" THEN <<"bs", "bs">>
  ELSE IF c = "q" THEN <<"bs", "q">>
  ELSE <<c>>

RECURSIVE EscapeFrom(_, _)
EscapeFrom(text, i) ==
  IF i > Len(text) THEN <<>> ELSE EscapeChar(text[i]) \o EscapeFrom(text, i + 1)

\* JSON.stringify(data): the text between quotes, escaped
JSONstringify(text) == <<"q">> \o EscapeFrom(text, 1) \o <<"q">>

\* the inside of a JSON string from place i to hi, unescaped; ok is FALSE
\* where JSON.parse throws (raw line feed or quote, broken escape)
RECURSIVE UnescapeFrom(_, _, _)
UnescapeFrom(chars, i, hi) ==
  IF i > hi THEN [ok |-> TRUE, value |-> <<>>]
  ELSE IF chars[i] = "bs"
  THEN IF i + 1 > hi \/ chars[i + 1] \notin {"n", "bs", "q"}
       THEN [ok |-> FALSE, value |-> <<>>]
       ELSE LET r == UnescapeFrom(chars, i + 2, hi)
                c == IF chars[i + 1] = "n" THEN LF ELSE chars[i + 1]
            IN [ok |-> r.ok, value |-> <<c>> \o r.value]
  ELSE IF chars[i] \in {"q", LF}
  THEN [ok |-> FALSE, value |-> <<>>]
  ELSE LET r == UnescapeFrom(chars, i + 1, hi)
       IN [ok |-> r.ok, value |-> <<chars[i]>> \o r.value]

\* JSON.parse(chars)
JSONparse(chars) ==
  IF Len(chars) < 2 \/ chars[1] # "q" \/ chars[Len(chars)] # "q"
  THEN [ok |-> FALSE, value |-> <<>>]
  ELSE UnescapeFrom(chars, 2, Len(chars) - 1)

\* `data: ${JSON.stringify(data)}\n\n` (route.ts:199)
Frame(text) == DataPrefix \o JSONstringify(text) \o <<LF, LF>>

\* encoder.encode(chars) from place i on: UTF-8, two bytes for U+00E9
RECURSIVE EncodeFrom(_, _)
EncodeFrom(chars, i) ==
  IF i > Len(chars) THEN <<>>
  ELSE (IF chars[i] = "e_acute" THEN <<"C3", "A9">> ELSE <<chars[i]>>)
       \o EncodeFrom(chars, i + 1)

\* the bytes of the frames of the events from place i on
RECURSIVE BytesFrom(_, _)
BytesFrom(sent, i) ==
  IF i > Len(sent) THEN <<>>
  ELSE EncodeFrom(Frame(sent[i]), 1) \o BytesFrom(sent, i + 1)

\* decoder.decode(value, { stream: true }) (useSSEStream.ts:74) on the
\* bytes kept from the last chunk followed by the new chunk, from place i
\* on: the text decoded, and the bytes of a character not yet complete
RECURSIVE DecodeFrom(_, _)
DecodeFrom(bytes, i) ==
  IF i > Len(bytes) THEN [text |-> <<>>, pending |-> <<>>]
  ELSE IF bytes[i] = "C3"
  THEN IF i = Len(bytes) THEN [text |-> <<>>, pending |-> <<"C3">>]
       ELSE IF bytes[i + 1] = "A9"
       THEN LET r == DecodeFrom(bytes, i + 2)
            IN [text |-> <<"e_acute">> \o r.text, pending |-> r.pending]
       ELSE LET r == DecodeFrom(bytes, i + 1)
            IN [text |-> <<"FFFD">> \o r.text, pending |-> r.pending]
  ELSE LET r == DecodeFrom(bytes, i + 1)
       IN [text |-> <<IF bytes[i] = "A9" THEN "FFFD" ELSE bytes[i]>> \o r.text,
           pending |-> r.pending]

\* buffer.indexOf('\n\n'), places counted from 1; 0 for -1
IndexOfBoundary(buffer) ==
  LET at == {i \in 1..(Len(buffer) - 1) : buffer[i] = LF /\ buffer[i + 1] = LF}
  IN IF at = {} THEN 0 ELSE CHOOSE i \in at : \A j \in at : i <= j

\* message.startsWith('data: ')
StartsWithData(message) ==
  Len(message) >= Len(DataPrefix) /\ SubSeq(message, 1, Len(DataPrefix)) = DataPrefix

\* mutant of ProcessBuffer: `if` for the inner `while`, one message is
\* taken from the buffer per chunk
ProcessBufferOnce(buffer, delivered) ==
  LET b == IndexOfBoundary(buffer)
  IN IF b = 0 THEN [buffer |-> buffer, delivered |-> delivered]
     ELSE LET message == SubSeq(buffer, 1, b - 1)
              rest == SubSeq(buffer, b + 2, Len(buffer))
              p == JSONparse(SubSeq(message, Len(DataPrefix) + 1, Len(message)))
          IN [buffer |-> rest,
              delivered |-> IF StartsWithData(message) /\ p.ok
                            THEN Append(delivered, p.value) ELSE delivered]

\* useSSEStream.ts:77-93: every complete message of the buffer is cut off,
\* parsed and handed to onMessage; what follows the last boundary stays
RECURSIVE ProcessBuffer(_, _)
ProcessBuffer(buffer, delivered) ==
  LET b == IndexOfBoundary(buffer)
  IN IF b = 0 THEN [buffer |-> buffer, delivered |-> delivered]
     ELSE LET message == SubSeq(buffer, 1, b - 1)
              rest == SubSeq(buffer, b + 2, Len(buffer))
              p == JSONparse(SubSeq(message, Len(DataPrefix) + 1, Len(message)))
          IN ProcessBuffer(rest,
                           IF StartsWithData(message) /\ p.ok
                           THEN Append(delivered, p.value) ELSE delivered)

SseInit ==
  /\ pc = "bench"
  /\ body = [jsonOk |-> TRUE, referenceImage |-> TRUE, targetText |-> TRUE,
             apiKey |-> TRUE, maxIterations |-> 0]
  /\ isCancelled = FALSE
  /\ readerGone = FALSE
  /\ events = <<>>
  /\ closeCalls = 0
  /\ refDNA = getDefaultDNA
  /\ visualDesc = NoVisualDesc
  /\ iteration = 0
  /\ bestScore = 0
  /\ bestIteration = 0
  /\ previousFeedback = NoFeedback
  /\ genDNA = getDefaultDNA
  /\ calls = <<>>
  /\ returns = <<>>
  /\ exit = "running"
  /\ variation = 0
  /\ sc = [phase |-> "off"]
  /\ cli = CliOff
  /\ peer = NoPeer
  /\ \E n \in 0..MaxEvents : \E sent \in [1..n -> SseTexts] :
        hook = [ phase |-> "read", sent |-> sent, stream |-> BytesFrom(sent, 1),
                 pending |-> <<>>, buffer |-> <<>>, delivered |-> <<>>,
                 midFrame |-> FALSE, midChar |-> FALSE, several |-> FALSE ]

HookRest ==
  UNCHANGED <<pc, body, isCancelled, readerGone, events, closeCalls, refDNA,
              iteration, bestScore, bestIteration, previousFeedback, genDNA,
              calls, returns, exit, sc, variation, cli, peer, visualDesc>>

\* useSSEStream.ts:71-93: reader.read() resolves with a chunk of n bytes;
\* it is decoded, added to the buffer, and the buffer is processed.
\* midFrame, midChar and several record that a chunk ended inside a frame,
\* inside a character, or held the end of more than one message.
SseRead ==
  /\ hook.phase = "read"
  /\ hook.stream # <<>>
  /\ \E n \in 1..Len(hook.stream) :
        LET d == DecodeFrom(hook.pending \o SubSeq(hook.stream, 1, n), 1)
            r == ProcessBuffer(hook.buffer \o d.text, hook.delivered)
        IN hook' = [hook EXCEPT
                      !.stream = SubSeq(hook.stream, n + 1, Len(hook.stream)),
                      !.pending = d.pending,
                      !.buffer = r.buffer,
                      !.delivered = r.delivered,
                      !.midFrame = @ \/ r.buffer # <<>>,
                      !.midChar = @ \/ d.pending # <<>>,
                      !.several = @ \/ Len(r.delivered) > Len(hook.delivered) + 1]
  /\ HookRest

\* useSSEStream.ts:71-72: reader.read() resolves with done, the loop is left
SseDone ==
  /\ hook.phase = "read"
  /\ hook.stream = <<>>
  /\ hook' = [hook EXCEPT !.phase = "done"]
  /\ HookRest

SseNext ==
  \/ SseRead
  \/ SseDone

SseSpec == SseInit /\ [][SseNext]_vars

-----------------------------------------------------------------------------
(* The stream hook, useSSEStream: start, cancel and the settling of the    *)
(* requests.  A request is named by its place in hook.reqs; `aborted` is   *)
(* the state of the signal of its AbortController, ref the request whose   *)
(* controller abortControllerRef.current holds (NoRequest for null).       *)

MaxStarts == 3

\* abortControllerRef.current = null
NoRequest == 0

HookInit ==
  /\ pc = "bench"
  /\ body = [jsonOk |-> TRUE, referenceImage |-> TRUE, targetText |-> TRUE,
             apiKey |-> TRUE, maxIterations |-> 0]
  /\ isCancelled = FALSE
  /\ readerGone = FALSE
  /\ events = <<>>
  /\ closeCalls = 0
  /\ refDNA = getDefaultDNA
  /\ visualDesc = NoVisualDesc
  /\ iteration = 0
  /\ bestScore = 0
  /\ bestIteration = 0
  /\ previousFeedback = NoFeedback
  /\ genDNA = getDefaultDNA
  /\ calls = <<>>
  /\ returns = <<>>
  /\ exit = "running"
  /\ variation = 0
  /\ sc = [phase |-> "off"]
  /\ cli = CliOff
  /\ peer = NoPeer
  /\ hook = [phase |-> "mounted", ref |-> NoRequest, isStreaming |-> FALSE, reqs |-> <<>>]

\* controller.abort() on the controller ref points at, if any
AbortCurrent(reqs, ref) ==
  [i \in DOMAIN reqs |-> IF i = ref THEN [reqs[i] EXCEPT !.aborted = TRUE] ELSE reqs[i]]

\* useSSEStream.ts:36-56: start() aborts the request the ref holds, stores a
\* new controller, sets isStreaming and suspends at fetch
HookStart ==
  /\ hook.phase = "mounted"
  /\ Len(hook.reqs) < MaxStarts
  /\ hook' = [hook EXCEPT
                !.reqs = Append(AbortCurrent(hook.reqs, hook.ref),
                                [pc |-> "fetch", aborted |-> FALSE]),
                !.ref = Len(hook.reqs) + 1,
                !.isStreaming = TRUE]
  /\ HookRest

\* useSSEStream.ts:28-34: cancel() with a controller in the ref
HookCancel ==
  /\ hook.phase = "mounted"
  /\ hook.ref # NoRequest
  /\ hook' = [hook EXCEPT !.reqs = AbortCurrent(hook.reqs, hook.ref),
                          !.ref = NoRequest,
                          !.isStreaming = FALSE]
  /\ HookRest

\* useSSEStream.ts:102-105, the finally block of the start() call of
\* request i
HookFinally(i) ==
  [hook EXCEPT !.reqs[i].pc = "done", !.isStreaming = FALSE, !.ref = NoRequest]

\* useSSEStream.ts:51-65: the fetch of request i settles: it rejects (with
\* AbortError when the signal was aborted) or the response is not usable,
\* and the call ends through catch and finally; or the response arrives and
\* the read loop is entered
HookFetchSettles(i) ==
  /\ hook.phase = "mounted"
  /\ hook.reqs[i].pc = "fetch"
  /\ \/ hook' = HookFinally(i)
     \/ /\ ~hook.reqs[i].aborted
        /\ hook' = [hook EXCEPT !.reqs[i].pc = "read"]
  /\ HookRest

\* useSSEStream.ts:70-105: the read loop of request i ends: the stream is
\* done, or a read rejects (with AbortError when the signal was aborted)
HookReadEnds(i) ==
  /\ hook.phase = "mounted"
  /\ hook.reqs[i].pc = "read"
  /\ hook' = HookFinally(i)
  /\ HookRest

HookNext ==
  \/ HookStart
  \/ HookCancel
  \/ \E i \in DOMAIN hook.reqs : HookFetchSettles(i)
  \/ \E i \in DOMAIN hook.reqs : HookReadEnds(i)

HookSpec == HookInit /\ [][HookNext]_vars

-----------------------------------------------------------------------------
(* Two typeface sessions served by one process.  Every POST call has its   *)
(* own isCancelled, controller and loop variables (route.ts:186-285); the  *)
(* handlers interleave only where one of them is suspended at an await.    *)

\* the variables of the POST call that is running
Own ==
  [ present |-> TRUE, pc |-> pc, body |-> body, isCancelled |-> isCancelled,
    readerGone |-> readerGone, events |-> events, closeCalls |-> closeCalls,
    refDNA |-> refDNA, visualDesc |-> visualDesc, iteration |-> iteration,
    bestScore |-> bestScore, bestIteration |-> bestIteration,
    previousFeedback |-> previousFeedback, genDNA |-> genDNA, calls |-> calls,
    returns |-> returns, exit |-> exit ]

\* the requests of the two sessions: one iteration asked, or a body that
\* does not parse
DuoBodies ==
  { b \in Bodies : b.referenceImage /\ b.targetText /\ b.apiKey /\ b.maxIterations = 1 }

\* a POST call suspended at request.json()
NewPost(b) ==
  [ present |-> TRUE, pc |-> "await_json", body |-> b, isCancelled |-> FALSE,
    readerGone |-> FALSE, events |-> <<>>, closeCalls |-> 0,
    refDNA |-> getDefaultDNA, visualDesc |-> NoVisualDesc, iteration |-> 0,
    bestScore |-> 0, bestIteration |-> 0, previousFeedback |-> NoFeedback,
    genDNA |-> getDefaultDNA, calls |-> <<>>, returns |-> <<>>,
    exit |-> "running" ]

\* the event loop hands control to the POST call whose variables are s: the
\* closure of that call becomes the running one
Resume(s) ==
  /\ pc' = s.pc
  /\ body' = s.body
  /\ isCancelled' = s.isCancelled
  /\ readerGone' = s.readerGone
  /\ events' = s.events
  /\ closeCalls' = s.closeCalls
  /\ refDNA' = s.refDNA
  /\ visualDesc' = s.visualDesc
  /\ iteration' = s.iteration
  /\ bestScore' = s.bestScore
  /\ bestIteration' = s.bestIteration
  /\ previousFeedback' = s.previousFeedback
  /\ genDNA' = s.genDNA
  /\ calls' = s.calls
  /\ returns' = s.returns
  /\ exit' = s.exit

DuoInit ==
  /\ \E b \in DuoBodies :
        /\ pc = "await_json"
        /\ body = b
  /\ isCancelled = FALSE
  /\ readerGone = FALSE
  /\ events = <<>>
  /\ closeCalls = 0
  /\ refDNA = getDefaultDNA
  /\ visualDesc = NoVisualDesc
  /\ iteration = 0
  /\ bestScore = 0
  /\ bestIteration = 0
  /\ previousFeedback = NoFeedback
  /\ genDNA = getDefaultDNA
  /\ calls = <<>>
  /\ returns = <<>>
  /\ exit = "running"
  /\ \E b \in DuoBodies : peer = NewPost(b)
  /\ sc = [phase |-> "off"]
  /\ variation = 0
  /\ cli = CliOff
  /\ hook = HookOff

\* the running handler is suspended at an await or has returned, and the
\* event loop runs a callback of the other POST call
Switch ==
  /\ peer.present
  /\ pc \in AwaitPcs \cup {"done"}
  /\ peer' = Own
  /\ Resume(peer)
  /\ UNCHANGED <<sc, variation, cli, hook>>

DuoNext ==
  \/ Abort
  \/ ReaderCancel
  \/ ParseBody
  \/ RefExtracted
  \/ LoopHead
  \/ GenThrows
  \/ GenReturns
  \/ GenDNAExtracted
  \/ Evaluated
  \/ Finish
  \/ Switch

DuoSpec == DuoInit /\ [][DuoNext]_vars

-----------------------------------------------------------------------------
(* The three typeface routes side by side: the base64 route                *)
(* (forge/route.ts:186-424), the file-backed route                         *)
(* (feedback/route.ts:1014-1278) and the earlier file-backed route         *)
(* (part_003:162-370), each run to the end of an iteration at a time on    *)
(* the same request and the same answers of the models.  No session is     *)
(* cancelled here.  Of the file operations of the file-backed routes the   *)
(* first of the preamble and the read of the generated image may throw.    *)

\* run state of one route: its stream and loop variables; running is FALSE
\* once start() has returned
RouteStart ==
  [ events |-> <<>>, bestScore |-> 0, bestIteration |-> 0,
    previousFeedback |-> NoFeedback, running |-> TRUE ]

\* the complete event after the loop
RouteComplete(r) ==
  [r EXCEPT !.events = Append(@, EvComplete(r.bestScore, r.bestIteration)),
            !.running = FALSE]

\* the outer catch: the error event
RouteError(r) == [r EXCEPT !.events = Append(@, EvError), !.running = FALSE]

\* the end of the loop body: break when stop, otherwise iteration++ and the
\* loop condition iteration <= maxIterations
RouteLoopEnd(r, it, max, stop) ==
  IF stop \/ it + 1 > max THEN RouteComplete(r) ELSE r

\* validateAndFillDNA of the earlier route: every sub-record is merged
\* field by field with the default one; spreading null adds nothing
EarlierValidateAndFillDNA(data) ==
  [ k \in {"stroke", "geometry", "terminals", "spacing", "proportions", "features"} |->
      IF k \in DOMAIN data /\ data[k] # Null
      THEN [ f \in DOMAIN getDefaultDNA[k] |->
               IF f \in DOMAIN data[k] THEN data[k][f] ELSE getDefaultDNA[k][f] ]
      ELSE getDefaultDNA[k] ]

\* compareDNA of the earlier route, latin branch: the same eight weighted
\* differences, 5 for a feature mismatch, no early return and no ceiling
\* for a stand-in record
EarlierCompareDNA(ref, gen) ==
  CHOOSE score \in
    { CHOOSE t \in
        { ScoreOfDiffs(ds, L,
                       ref.features.hasStencilGaps = gen.features.hasStencilGaps,
                       FALSE) :
          L \in {LcmOfDens(ds, 1)} } : TRUE :
      ds \in {WeightedDiffs(ref, gen)} } : TRUE

\* the dna event of the earlier route: no visualDescription, no warning
EvEarlierDna(dna) == [type |-> "dna", iteration |-> 0, dna |-> dna]

\* the iteration_eval event of the earlier route: score is
\* comparison.overallScore
EvEarlierEval(it, score) ==
  [type |-> "iteration_eval", iteration |-> it, score |-> score]

\* the loop of a route with maxIterations = 0 has no iteration
RouteLoopStart(r, max) == IF max < 1 THEN RouteComplete(r) ELSE r

\* route.ts:235-285: the events up to the loop
Base64Preamble(r, max, refParsed, desc) ==
  RouteLoopStart(
    [r EXCEPT !.events = @ \o << EvStatus("uploading", 0), EvSession,
                                 EvStatus("analyzing", 0),
                                 EvDna(validateAndFillDNA(refParsed), desc) >>],
    max)

\* mutant of FilePreamble: the session event is not sent
FilePreambleNoSession(r, max, refParsed, desc, fs) ==
  IF fs = "throws"
  THEN RouteError([r EXCEPT !.events = Append(@, EvStatus("uploading", 0))])
  ELSE RouteLoopStart(
         [r EXCEPT !.events = @ \o << EvStatus("uploading", 0),
                                      EvStatus("analyzing", 0),
                                      EvDna(validateAndFillDNA(refParsed), desc) >>],
         max)

\* feedback/route.ts:1057-1128: the same events, with the reference written
\* to the session directory after the first status (1065-1068)
FilePreamble(r, max, refParsed, desc, fs) ==
  IF fs = "throws"
  THEN RouteError([r EXCEPT !.events = Append(@, EvStatus("uploading", 0))])
  ELSE RouteLoopStart(
         [r EXCEPT !.events = @ \o << EvStatus("uploading", 0), EvSession,
                                      EvStatus("analyzing", 0),
                                      EvDna(validateAndFillDNA(refParsed), desc) >>],
         max)

\* part_003:211-247: no session event; the reference is analysed by
\* extractMathematicalDNA alone
EarlierPreamble(r, max, refParsed, fs) ==
  IF fs = "throws"
  THEN RouteError([r EXCEPT !.events = Append(@, EvStatus("uploading", 0))])
  ELSE RouteLoopStart(
         [r EXCEPT !.events = @ \o << EvStatus("uploading", 0),
                                      EvStatus("analyzing", 0),
                                      EvEarlierDna(EarlierValidateAndFillDNA(refParsed)) >>],
         max)

\* one pass of the loop body of route.ts:287-400 for the answers o
Base64Iteration(r, it, max, refParsed, o) ==
  LET started == r.events \o <<EvIterationStart(it), EvStatus("generating", it)>>
      shown   == started \o <<EvIterationImage(it), EvStatus("evaluating", it)>>
      res     == ScoreStep(validateAndFillDNA(refParsed), validateAndFillDNA(o.parsed), o.ve)
      b       == BestUpdate(r.bestScore, r.bestIteration, res.score, it)
  IN IF o.gen = "throws"
     THEN RouteLoopEnd([r EXCEPT !.events = Append(started, EvIterationError(it))],
                       it, max, FALSE)
     ELSE IF res.threw
     THEN RouteError([r EXCEPT !.events = shown])
     ELSE RouteLoopEnd(
            [ events |-> Append(shown, EvIterationEval(it, res, o.ve)),
              bestScore |-> b[1], bestIteration |-> b[2],
              previousFeedback |-> NextFeedback(o.ve, res.score, b[1]),
              running |-> TRUE ],
            it, max, Converged(res.score, res.replaced))

\* one pass of the loop body of feedback/route.ts:1130-1254: the generated
\* image is read back from its file before it is sent (1163)
FileIteration(r, it, max, refParsed, o) ==
  LET started == r.events \o <<EvIterationStart(it), EvStatus("generating", it)>>
      shown   == started \o <<EvIterationImage(it), EvStatus("evaluating", it)>>
      res     == ScoreStep(validateAndFillDNA(refParsed), validateAndFillDNA(o.parsed), o.ve)
      b       == BestUpdate(r.bestScore, r.bestIteration, res.score, it)
  IN IF o.gen = "throws"
     THEN RouteLoopEnd([r EXCEPT !.events = Append(started, EvIterationError(it))],
                       it, max, FALSE)
     ELSE IF o.read = "throws"
     THEN RouteError([r EXCEPT !.events = started])
     ELSE IF res.threw
     THEN RouteError([r EXCEPT !.events = shown])
     ELSE RouteLoopEnd(
            [ events |-> Append(shown, EvIterationEval(it, res, o.ve)),
              bestScore |-> b[1], bestIteration |-> b[2],
              previousFeedback |-> NextFeedback(o.ve, res.score, b[1]),
              running |-> TRUE ],
            it, max, Converged(res.score, res.replaced))

\* one pass of the loop body of part_003:249-337: no visual evaluation and
\* no feedback; the score is comparison.overallScore and the loop breaks
\* at 85
EarlierIteration(r, it, max, refParsed, o) ==
  LET started == r.events \o <<EvIterationStart(it), EvStatus("generating", it)>>
      shown   == started \o <<EvIterationImage(it), EvStatus("evaluating", it)>>
      score   == EarlierCompareDNA(EarlierValidateAndFillDNA(refParsed),
                                   EarlierValidateAndFillDNA(o.parsed))
      b       == BestUpdate(r.bestScore, r.bestIteration, score, it)
  IN IF o.gen = "throws"
     THEN RouteLoopEnd([r EXCEPT !.events = Append(started, EvIterationError(it))],
                       it, max, FALSE)
     ELSE IF o.read = "throws"
     THEN RouteError([r EXCEPT !.events = started])
     ELSE RouteLoopEnd(
            [ events |-> Append(shown, EvEarlierEval(it, score)),
              bestScore |-> b[1], bestIteration |-> b[2],
              previousFeedback |-> NoFeedback, running |-> TRUE ],
            it, max, Ge(score, 85))

\* what the collaborators answer during one iteration: the generation, the
\* read of the generated file, the analysis of the generated image and the
\* visual evaluation
IterationOutcomes ==
  [ gen : {"returns", "throws"}, read : {"ok", "throws"},
    parsed : {ParsedCustom, ParsedFar},
    ve : {evaluateVisualSimilarity(AnsHigh), evaluateVisualSimilarity(AnsZero)} ]

RoutesInit ==
  /\ pc = "bench"
  /\ body = [jsonOk |-> TRUE, referenceImage |-> TRUE, targetText |-> TRUE,
             apiKey |-> TRUE, maxIterations |-> 0]
  /\ isCancelled = FALSE
  /\ readerGone = FALSE
  /\ events = <<>>
  /\ closeCalls = 0
  /\ refDNA = getDefaultDNA
  /\ visualDesc = NoVisualDesc
  /\ iteration = 0
  /\ bestScore = 0
  /\ bestIteration = 0
  /\ previousFeedback = NoFeedback
  /\ genDNA = getDefaultDNA
  /\ calls = <<>>
  /\ returns = <<>>
  /\ exit = "running"
  /\ variation = 0
  /\ cli = CliOff
  /\ peer = NoPeer
  /\ hook = HookOff
  /\ \E max \in 0..MaxIterBound :
        sc = [ phase |-> "routes", stage |-> "request", maxIterations |-> max,
               refParsed |-> ParsedCustom, iteration |-> 0, fsFailed |-> FALSE,
               answers |-> <<>>,
               base64 |-> RouteStart, file |-> RouteStart, earlier |-> RouteStart ]

\* the three handlers from the request to the head of the loop, on the
\* same answers for the reference
RoutesBegin ==
  /\ UNCHANGED <<cli, peer, visualDesc, hook>>
  /\ sc.phase = "routes"
  /\ sc.stage = "request"
  /\ \E p \in RefParsed \cup {ParsedEmptyTop5} : \E desc \in VisualDescOutcomes :
     \E fs \in {"ok", "throws"} :
        sc' = [sc EXCEPT !.stage = "loop",
                         !.refParsed = p,
                         !.iteration = 1,
                         !.fsFailed = (fs = "throws"),
                         !.base64 = Base64Preamble(@, sc.maxIterations, p, desc),
                         !.file = FilePreamble(@, sc.maxIterations, p, desc, fs),
                         !.earlier = EarlierPreamble(@, sc.maxIterations, p, fs)]
  /\ UNCHANGED <<pc, body, isCancelled, readerGone, events, closeCalls, refDNA,
                 iteration, bestScore, bestIteration, previousFeedback, genDNA,
                 calls, returns, exit, variation>>

\* one iteration of every route that is still in its loop, on the same
\* answers
RoutesIterate ==
  /\ UNCHANGED <<cli, peer, visualDesc, hook>>
  /\ sc.phase = "routes"
  /\ sc.stage = "loop"
  /\ sc.base64.running \/ sc.file.running \/ sc.earlier.running
  /\ \E o \in IterationOutcomes :
        sc' = [sc EXCEPT
                 !.iteration = @ + 1,
                 !.answers = Append(@, o),
                 !.fsFailed = @ \/ (o.gen = "returns" /\ o.read = "throws"),
                 !.base64 = IF @.running
                            THEN Base64Iteration(@, sc.iteration, sc.maxIterations,
                                                 sc.refParsed, o)
                            ELSE @,
                 !.file = IF @.running
                          THEN FileIteration(@, sc.iteration, sc.maxIterations,
                                             sc.refParsed, o)
                          ELSE @,
                 !.earlier = IF @.running
                             THEN EarlierIteration(@, sc.iteration, sc.maxIterations,
                                                   sc.refParsed, o)
                             ELSE @]
  /\ UNCHANGED <<pc, body, isCancelled, readerGone, events, closeCalls, refDNA,
                 iteration, bestScore, bestIteration, previousFeedback, genDNA,
                 calls, returns, exit, variation>>

RoutesNext ==
  \/ RoutesBegin
  \/ RoutesIterate

RoutesSpec == RoutesInit /\ [][RoutesNext]_vars

-----------------------------------------------------------------------------
(* Properties *)

Last(q) == q[Len(q)]

IsGenCall(c) == c.fn = "generateImage"

\* the iteration_eval events on the stream
EvalEvents == {events[k] : k \in {j \in DOMAIN events : events[j].type = "iteration_eval"}}

BodyValid == body.jsonOk /\ body.referenceImage /\ body.targetText /\ body.apiKey

\* C1: once an iteration_eval with score >= 90 and the replaced flag false
\* is on the stream, nothing of a later iteration exists (no event, no
\* external call), it is the last iteration event, and the session ends
\* with the complete event right after it.
C1_ConvergenceStops ==
  \A k \in DOMAIN events :
     ( /\ events[k].type = "iteration_eval"
       /\ Ge(events[k].score, 90)
       /\ ~events[k].wasReplacedWithStandardFont )
     => /\ \A j \in DOMAIN events : events[j].iteration <= events[k].iteration
        /\ \A c \in DOMAIN calls : calls[c].iteration <= events[k].iteration
        /\ \/ pc = "after_loop" /\ Len(events) = k
           \/ /\ pc = "done"
              /\ Len(events) = k + 1
              /\ events[k + 1].type = "complete"

\* C1 witness: the session converged at iteration 1 of 2 and completed
C1_Witness ==
  /\ pc = "done"
  /\ exit = "converged"
  /\ body.maxIterations = 2
  /\ \E e \in EvalEvents : e.iteration = 1 /\ Ge(e.score, 90)
  /\ events # <<>>
  /\ Last(events).type = "complete"

\* C2 as stated: the complete event reports the maximum composite over the
\* evaluated iterations and the smallest index that achieved it.  Stated
\* for the sessions whose composites are all numbers within 0..100, so
\* that its failure owes nothing to a composite outside that range.
C2_BestIsMaxOfEvaluated ==
  \A k \in DOMAIN events :
     ( /\ events[k].type = "complete"
       /\ EvalEvents # {}
       /\ \A f \in EvalEvents : f.score \in 0..100 )
     => \E e \in EvalEvents :
           /\ events[k].bestScore = e.score
           /\ events[k].bestIteration = e.iteration
           /\ \A f \in EvalEvents :
                 /\ ~Gt(f.score, e.score)
                 /\ (f.score = e.score => f.iteration >= e.iteration)

\* C2 amended: the complete event reports the largest composite above 0
\* and the smallest index that achieved it; 0 and 0 when no evaluated
\* iteration scored above 0.
C2_BestIsMaxAboveZero ==
  \A k \in DOMAIN events :
     events[k].type = "complete"
     => LET pos == {e \in EvalEvents : Gt(e.score, 0)}
        IN IF pos = {}
           THEN events[k].bestScore = 0 /\ events[k].bestIteration = 0
           ELSE \E e \in pos :
                   /\ events[k].bestScore = e.score
                   /\ events[k].bestIteration = e.iteration
                   /\ \A f \in pos :
                         /\ f.score <= e.score
                         /\ (f.score = e.score => f.iteration >= e.iteration)

\* C2 witness: two evaluated iterations tie at the best score and the
\* earlier one is reported
C2_Witness ==
  /\ pc = "done"
  /\ events # <<>>
  /\ Last(events).type = "complete"
  /\ Last(events).bestIteration = 1
  /\ \E e, f \in EvalEvents :
        /\ e.iteration = 1
        /\ f.iteration = 2
        /\ e.score = f.score
        /\ Gt(e.score, 0)

\* C3: when every generation call failed and the session was not
\* cancelled, each index 1..maxIterations has exactly one iteration_error,
\* there is no iteration_image or iteration_eval, the loop ran to
\* maxIterations, and the last event is complete with bestScore 0.
C3_Exhaustion ==
  ( /\ pc = "done"
    /\ BodyValid
    /\ ~isCancelled
    /\ \A r \in DOMAIN returns : ~returns[r].ok )
  => /\ exit = "exhausted"
     /\ Len(returns) = body.maxIterations
     /\ \A i \in 1..body.maxIterations :
           Cardinality({k \in DOMAIN events :
                           events[k].type = "iteration_error" /\ events[k].iteration = i}) = 1
     /\ \A k \in DOMAIN events :
           /\ events[k].type \notin {"iteration_image", "iteration_eval"}
           /\ events[k].iteration <= body.maxIterations
     /\ Last(events) = EvComplete(0, 0)

\* C3 witness: two iterations, both generations failed, session done
C3_Witness ==
  /\ pc = "done"
  /\ ~isCancelled
  /\ body.maxIterations = 2
  /\ Len(returns) = 2
  /\ \A r \in DOMAIN returns : ~returns[r].ok

\* C4: once the cancel flag is set it stays set, the stream gets no further
\* event and no generation call is started; a loop entered with the flag
\* set is left at once.
C4_NothingAfterCancel ==
  [][ /\ isCancelled => /\ isCancelled'
                        /\ events' = events
                        /\ SelectSeq(calls', IsGenCall) = SelectSeq(calls, IsGenCall)
      /\ (pc = "loop" /\ isCancelled) => pc' = "after_loop" ]_vars

\* C4 witness: the flag is set at the head of iteration N+1 (N >= 1) after
\* events of iteration N were emitted
C4_Witness ==
  /\ pc = "loop"
  /\ isCancelled
  /\ iteration >= 2
  /\ iteration <= body.maxIterations
  /\ \E k \in DOMAIN events :
        events[k].type = "iteration_start" /\ events[k].iteration = iteration - 1

\* C5 as stated: a session that ended converged, exhausted or cancelled has
\* the complete event as its last event.
C5_CompleteOnEveryEnd ==
  (pc = "done" /\ exit \in {"converged", "exhausted", "cancelled"})
  => (events # <<>> /\ Last(events).type = "complete")

\* C5 amended: a session that ended converged or exhausted without being
\* cancelled has complete(bestScore, bestIteration) as its last event; a
\* cancelled session has no complete event at all.
C5_CompleteUnlessCancelled ==
  pc = "done"
  => /\ (exit \in {"converged", "exhausted"} /\ ~isCancelled)
        => (events # <<>> /\ Last(events) = EvComplete(bestScore, bestIteration))
     /\ isCancelled => \A k \in DOMAIN events : events[k].type # "complete"

\* C5 witness: an uncancelled session ran out of iterations and completed
C5_Witness ==
  /\ pc = "done"
  /\ exit = "exhausted"
  /\ ~isCancelled
  /\ body.maxIterations >= 1
  /\ events # <<>>
  /\ Last(events).type = "complete"

\* C6: the feedback handed to the generation call of iteration N+1 is the
\* record built from iteration N's evaluation: its score and its lost and
\* preserved features and critique.
C6_FeedbackThreading ==
  \A c \in DOMAIN calls : \A e \in EvalEvents :
     (IsGenCall(calls[c]) /\ calls[c].iteration = e.iteration + 1)
     => calls[c].feedback =
           [ present |-> TRUE,
             lostFeatures |-> e.visualEvaluation.lostFeatures,
             preservedFeatures |-> e.visualEvaluation.preservedFeatures,
             previousScore |-> e.score,
             critique |-> e.visualEvaluation.critique ]

\* C6 witness: iteration 2's generation call was started after iteration 1
\* was evaluated
C6_Witness ==
  \E c \in DOMAIN calls : \E e \in EvalEvents :
     /\ IsGenCall(calls[c])
     /\ e.iteration = 1
     /\ calls[c].iteration = 2
     /\ calls[c].feedback.present

\* C7: the feedback handed to a generation call is absent on iteration 1
\* and present on every later iteration.
C7_FeedbackPresence ==
  \A c \in DOMAIN calls :
     IsGenCall(calls[c]) => (calls[c].feedback.present <=> calls[c].iteration > 1)

\* C8: the composite score of every evaluated iteration lies in [0,100].
C8_CompositeInRange ==
  \A e \in EvalEvents : ~IsNaN(e.score) /\ e.score >= 0 /\ e.score <= 100

\* C9: an iteration whose replaced-with-standard-font flag is set has a
\* composite score of at most 35.
C9_ReplacedAtMost35 ==
  \A e \in EvalEvents :
     e.wasReplacedWithStandardFont => (~IsNaN(e.score) /\ e.score <= 35)

\* C10: for sub-scores in 0..100, the composite computed with the flag set
\* is never greater than the composite computed with the flag clear.
C10_PenaltyNeverRaises ==
  ( /\ sc.phase = "scored"
    /\ ~sc.reported.threw /\ ~sc.clear.threw
    /\ sc.reported.replaced /\ ~sc.clear.replaced
    /\ sc.similarityScore \in 0..100
    /\ sc.textAccuracy \in 0..100
    /\ sc.clear.dnaScore \in 0..100 )
  => sc.reported.score <= sc.clear.score

\* C11: when the text accuracy is below 50 the composite is at most 40,
\* whether or not the replaced flag is set, and at most 35 when it is set.
C11_AccuracyCeiling ==
  sc.phase = "scored"
  => \A r \in {sc.reported, sc.clear} :
        (~r.threw /\ Lt(sc.textAccuracy, 50))
        => /\ ~IsNaN(r.score)
           /\ r.score <= 40
           /\ r.replaced => r.score <= 35

\* a default stand-in as the DNA comparison defines it: criticalFeatures
\* missing or null, or its top5 list empty
IsStandIn(dna) ==
  \/ dna.criticalFeatures = Null
  \/ dna.criticalFeatures.top5 = 0

\* C12: compareDNA returns overallScore 50, without throwing, whenever both
\* records are default stand-ins, whatever their other fields hold.
C12_BothStandInsGive50 ==
  (sc.phase = "compared" /\ IsStandIn(sc.ref) /\ IsStandIn(sc.gen))
  => (~sc.threw /\ sc.overallScore = 50)

\* C12 witness: two stand-ins that differ from the default record and from
\* each other were compared, one of them holding a null sub-record
C12_Witness ==
  /\ sc.phase = "compared"
  /\ IsStandIn(sc.ref) /\ IsStandIn(sc.gen)
  /\ sc.ref # sc.gen
  /\ sc.ref # getDefaultDNA
  /\ sc.gen.geometry = Null

\* C13: compareDNA returns an overallScore of at most 60 whenever exactly
\* one of the two records is a default stand-in.
C13_OneStandInAtMost60 ==
  ( /\ sc.phase = "compared"
    /\ IsStandIn(sc.ref) # IsStandIn(sc.gen)
    /\ ~sc.threw )
  => (~IsNaN(sc.overallScore) /\ sc.overallScore <= 60)

\* C14: safeDiff(a, b) = safeDiff(b, a) and safeDiff(a, a) = 0 for all
\* numbers a and b.
C14_SafeDiffSymmetric ==
  sc.phase = "diffed"
  => /\ sc.ab[1] * sc.ba[2] = sc.ba[1] * sc.ab[2]
     /\ sc.aa[1] = 0

\* C14 witness: safeDiff was applied to a negative and a positive number of
\* different magnitudes and the difference is not zero
C14_Witness ==
  /\ sc.phase = "diffed"
  /\ sc.a < 0
  /\ sc.b > 0
  /\ Abs(sc.a) # Abs(sc.b)
  /\ sc.ab[1] > 0

\* C15 as stated: a request without referenceImage or targetText, or served
\* without GEMINI_API_KEY, makes no external call and its stream holds
\* exactly one event, an error event, when the handler is done.
C15_FatalInputOneError ==
  (body.jsonOk /\ ~BodyValid)
  => /\ calls = <<>>
     /\ events = (IF pc = "done" THEN <<EvError>> ELSE <<>>)

\* C15 amended: such a request makes no external call and emits no event
\* other than one error event; the error event is emitted unless the
\* session was cancelled before the inputs were examined, in which case
\* the stream stays empty.
C15_FatalInputErrorUnlessCancelled ==
  (body.jsonOk /\ ~BodyValid)
  => /\ calls = <<>>
     /\ events = (IF pc = "done" /\ ~isCancelled THEN <<EvError>> ELSE <<>>)
     /\ pc \in {"await_json", "done"}
     /\ pc = "done" => exit = "error"

\* C15 witness: a request served without GEMINI_API_KEY ended with the
\* error event alone
C15_Witness ==
  /\ pc = "done"
  /\ body.jsonOk /\ body.referenceImage /\ body.targetText /\ ~body.apiKey
  /\ ~isCancelled
  /\ events = <<EvError>>
  /\ calls = <<>>

\* the iterations whose generation call failed
FailedIterations == {returns[r].iteration : r \in {q \in DOMAIN returns : ~returns[q].ok}}

\* the number of events of type t for iteration i on the stream
CountEvents(t, i) ==
  Cardinality({k \in DOMAIN events : events[k].type = t /\ events[k].iteration = i})

\* what the stream and the loop show of the failed generations of a session
\* that is not cancelled
GenFailuresRecorded ==
  ~isCancelled
  => \A i \in FailedIterations :
        /\ CountEvents("iteration_error", i) = 1
        /\ CountEvents("iteration_image", i) = 0
        /\ CountEvents("iteration_eval", i) = 0
        /\ i < body.maxIterations
           => \/ pc = "loop" /\ iteration = i + 1
              \/ CountEvents("iteration_start", i + 1) = 1

\* C16: a generation failure at iteration i that leaves the session not
\* cancelled appends one iteration_error event for i and nothing else,
\* leaves bestScore, bestIteration and the feedback record unchanged and
\* moves the loop to index i+1 without ending the session; an uncancelled
\* session shows exactly one iteration_error and no iteration_image or
\* iteration_eval for each failed index, and has started index i+1 when
\* i < maxIterations.
C16_GenFailureContinues ==
  [][ /\ ( /\ pc = "await_gen"
           /\ Len(returns') = Len(returns) + 1
           /\ ~returns'[Len(returns')].ok
           /\ ~isCancelled' )
         => /\ events' = Append(events, EvIterationError(iteration))
            /\ bestScore' = bestScore
            /\ bestIteration' = bestIteration
            /\ previousFeedback' = previousFeedback
            /\ iteration' = iteration + 1
            /\ pc' = "loop"
            /\ exit' = "running"
            /\ closeCalls' = closeCalls
      /\ GenFailuresRecorded' ]_vars

\* C16 witness: iteration 1's generation failed, and iteration 2 was
\* generated and evaluated in the same uncancelled session
C16_Witness ==
  /\ ~isCancelled
  /\ Len(returns) = 2
  /\ ~returns[1].ok
  /\ returns[2].ok
  /\ CountEvents("iteration_error", 1) = 1
  /\ CountEvents("iteration_eval", 2) = 1

\* the reference DNA of the session is a default stand-in: for the typeface
\* routes a record without critical features, for the illustration route
\* the default record
RefIsStandIn ==
  IF "criticalFeatures" \in DOMAIN refDNA
  THEN IsStandIn(refDNA)
  ELSE refDNA = getDefaultIllustrationDNA

\* C17: when the reference DNA in use is a default stand-in, the dna event
\* on the stream carries a warning, and the session has gone on to the
\* iteration loop.
C17_DefaultRefWarned ==
  \A k \in DOMAIN events :
     (events[k].type = "dna" /\ RefIsStandIn)
     => /\ "warning" \in DOMAIN events[k]
        /\ events[k].warning
        /\ iteration >= 1

\* C18: whatever the analysis and evaluation models answer for a
\* candidate, a session with valid inputs never emits an error event and
\* never leaves the handler through the outer catch.
C18_NoErrorFromModelAnswers ==
  BodyValid
  => /\ \A k \in DOMAIN events : events[k].type # "error"
     /\ exit # "error"

\* the handler has returned, the stream was closed, and unless the session
\* was cancelled the last event on it is complete or error
Terminated ==
  /\ pc = "done"
  /\ closeCalls >= 1
  /\ ~isCancelled => (events # <<>> /\ Last(events).type \in {"complete", "error"})

\* C19: with every external call returning or throwing in the end, every
\* session reaches the end of the handler with the stream closed, and an
\* uncancelled session's last event is complete or error.
C19_EverySessionTerminates == <>[]Terminated

\* C19 witness: an uncancelled session ended through the outer catch after
\* an iteration was generated, with the error event last
C19_Witness ==
  /\ Terminated
  /\ ~isCancelled
  /\ exit = "error"
  /\ BodyValid
  /\ Len(returns) >= 1
  /\ Last(events).type = "error"

\* events the handler may try to send in the current state
SendableEvents ==
  { EvError, EvStatus("generating", iteration), EvIterationStart(iteration),
    EvIterationError(iteration), EvIterationImage(iteration),
    EvComplete(bestScore, bestIteration) }

\* C20: once the flag is set or the reader is gone, a send appends nothing
\* and leaves the flag set (it returns false); no step of the session
\* appends an event then, and neither the flag nor the disconnection is
\* ever undone.
C20_SendIsNoOpAfterDisconnect ==
  [][ /\ (isCancelled \/ readerGone)
         => /\ \A e \in SendableEvents :
                  send(Cur, e) = [c |-> TRUE, ev |-> events]
            /\ events' = events
      /\ isCancelled => isCancelled'
      /\ readerGone => readerGone' ]_vars

\* C20 witness: the reader went away while the reference was analysed, the
\* enqueue of the dna event failed and set the flag, and the loop head is
\* reached with the flag set and no dna event on the stream
C20_Witness ==
  /\ pc = "loop"
  /\ iteration = 1
  /\ isCancelled
  /\ readerGone
  /\ \A k \in DOMAIN events : events[k].type # "dna"

\* the characters the claim calls Japanese: hiragana, katakana (the
\* katakana block, its phonetic extensions and the halfwidth forms) and CJK
\* ideographs (the unified ideographs and extension A)
JapaneseChars ==
  (12352..12447) \cup (12448..12543) \cup (12784..12799) \cup (65382..65439)
  \cup (13312..19903) \cup (19968..40959)

AsciiLetters == (65..90) \cup (97..122)

HasChar(text, class) == \E i \in DOMAIN text : text[i] \in class

\* C21: detectScript returns 'mixed' iff the text holds a Japanese character
\* (hiragana, katakana or CJK ideograph) and an ASCII letter, 'japanese'
\* iff it holds a Japanese character and no ASCII letter, and 'latin' for
\* every other text, the empty one included.
C21_DetectScriptByClass ==
  sc.phase = "detected"
  => sc.scriptType =
       ( IF HasChar(sc.text, JapaneseChars) /\ HasChar(sc.text, AsciiLetters) THEN "mixed"
         ELSE IF HasChar(sc.text, JapaneseChars) THEN "japanese"
         ELSE "latin" )

\* the sessions of the run that fulfilled
Fulfilled == {i \in Sessions : cli.sess[i].pc = "fulfilled"}

\* C22: runParallelStrategies runs one session per strategy; when it
\* returns, bestResult is the fulfilled session with the highest
\* finalScore, the earliest in the list among equals, and allResults holds
\* the results of exactly the fulfilled sessions; it throws exactly when
\* no session fulfilled; and the step by which one session rejects leaves
\* every other session as it was.
C22_BestOfSuccessfulSessions ==
  [][ /\ cli.phase = "running"
      /\ Len(cli.sess) = Len(cli.strategies)
      /\ \A i \in Sessions :
            (cli.sess[i].pc # "rejected" /\ cli'.sess[i].pc = "rejected")
            => \A j \in Sessions \ {i} : cli'.sess[j] = cli.sess[j]
      /\ cli'.phase # "running"
         => /\ cli'.sess = cli.sess
            /\ cli'.phase = (IF Fulfilled = {} THEN "thrown" ELSE "returned")
            /\ cli'.allResults = {ResultOf(cli.sess[i]) : i \in Fulfilled}
            /\ Fulfilled # {}
               => /\ cli'.bestResult \in Fulfilled
                  /\ \A j \in Fulfilled :
                        /\ cli.sess[j].finalScore <= cli.sess[cli'.bestResult].finalScore
                        /\ cli.sess[j].finalScore = cli.sess[cli'.bestResult].finalScore
                           => j >= cli'.bestResult ]_vars

\* C22 witness: two sessions ran interleaved, both fulfilled with the same
\* finalScore above 0, and the call returned the first as bestResult
C22_Witness ==
  /\ cli.phase = "returned"
  /\ Len(cli.sess) = 2
  /\ Fulfilled = {1, 2}
  /\ cli.sess[1].finalScore = cli.sess[2].finalScore
  /\ cli.sess[1].finalScore > 0
  /\ cli.bestResult = 1

\* C23: once the cancel flag is set while an external call is in flight,
\* the handler starts no further external call after that call returns.
C23_NoCallAfterCancel ==
  [][ (isCancelled /\ pc \in AwaitPcs) => calls' = calls ]_vars

IterationEventTypes ==
  {"iteration_start", "iteration_error", "iteration_image", "iteration_eval"}

\* the types of the iteration events of index i on the stream, in order
RECURSIVE KindsOf(_, _, _)
KindsOf(evs, i, k) ==
  IF k > Len(evs) THEN <<>>
  ELSE IF evs[k].type \in IterationEventTypes /\ evs[k].iteration = i
       THEN <<evs[k].type>> \o KindsOf(evs, i, k + 1)
       ELSE KindsOf(evs, i, k + 1)

\* the beginnings of a sequence
Prefixes(q) == {SubSeq(q, 1, n) : n \in 0..Len(q)}

\* the external calls that evaluate the candidate of an iteration
IsEvalCall(c) ==
  c.iteration >= 1 /\ c.fn \in {"extractMathematicalDNA", "evaluateVisualSimilarity"}

\* C24: for every index i the iteration events on the stream are a
\* beginning of iteration_start, iteration_error or of iteration_start,
\* iteration_image, iteration_eval (each kind at most once, no
\* iteration_error after iteration_image), and iteration_image(i) is on the
\* stream before the evaluation of candidate i is started.
C24_IterationEventProtocol ==
  /\ \A i \in 1..(MaxIterBound + 1) :
        KindsOf(events, i, 1) \in
           Prefixes(<<"iteration_start", "iteration_error">>) \cup
           Prefixes(<<"iteration_start", "iteration_image", "iteration_eval">>)
  /\ \A c \in DOMAIN calls :
        IsEvalCall(calls[c]) => CountEvents("iteration_image", calls[c].iteration) = 1

\* C24 witness: iteration 1 ended with iteration_error and iteration 2 was
\* generated and evaluated
C24_Witness ==
  /\ pc = "done"
  /\ KindsOf(events, 1, 1) = <<"iteration_start", "iteration_error">>
  /\ KindsOf(events, 2, 1) = <<"iteration_start", "iteration_image", "iteration_eval">>

\* the indices of the iteration_start events on the stream, in order
RECURSIVE StartIndices(_, _)
StartIndices(evs, k) ==
  IF k > Len(evs) THEN <<>>
  ELSE IF evs[k].type = "iteration_start"
       THEN <<evs[k].iteration>> \o StartIndices(evs, k + 1)
       ELSE StartIndices(evs, k + 1)

\* C25: the iteration_start events carry the indices 1, 2, ..., k in this
\* order with k <= maxIterations, and the generation call of an index
\* above 1 is started only after the index before it has emitted
\* iteration_eval or iteration_error.
C25_IterationsSequential ==
  /\ \E k \in 0..body.maxIterations : StartIndices(events, 1) = [j \in 1..k |-> j]
  /\ \A c \in DOMAIN calls :
        (IsGenCall(calls[c]) /\ calls[c].iteration > 1)
        => CountEvents("iteration_eval", calls[c].iteration - 1)
           + CountEvents("iteration_error", calls[c].iteration - 1) = 1

\* C25 witness: the generation of iteration 2 was started after iteration 1
\* was evaluated, with both iteration_start events on the stream
C25_Witness ==
  /\ StartIndices(events, 1) = <<1, 2>>
  /\ CountEvents("iteration_eval", 1) = 1
  /\ \E c \in DOMAIN calls : IsGenCall(calls[c]) /\ calls[c].iteration = 2

\* C26: the overallScore compareDNA returns is an integer in [0,100]
\* whatever the fields hold, and in each scoring category the weights
\* subtracted from 100 sum to exactly 100.
C26_OverallScoreInRange ==
  /\ (sc.phase = "compared" /\ ~sc.threw)
     => (~IsNaN(sc.overallScore) /\ sc.overallScore \in 0..100)
  /\ \A cat \in DOMAIN CategoryWeights : SumSeq(CategoryWeights[cat], 1) = 100

\* the entries of a sequence
Range(q) == {q[j] : j \in DOMAIN q}

TerminalStatus == {"complete", "error"}

\* C27 as stated: once an iteration record of the caller's session state
\* has status complete or error, no later message of the stream changes it.
C27_TerminalRecordsFrozen ==
  \A k \in 1..Len(events) :
     \A r \in Range(SessionAfter(ClientKind, events, k - 1).iterations) :
        r.status \in TerminalStatus
        => r \in Range(SessionAfter(ClientKind, events, k).iterations)

\* a record without its colour variations
WithoutVariations(r) == [r EXCEPT !.colorVariations = <<>>]

\* C27 amended: once an iteration record has status complete or error, no
\* later message changes its index, status, image, or score; only a
\* color_variation message of the illustration stream for that index
\* changes the record, and only by replacing or adding that variation in
\* its colorVariations list.
C27_TerminalRecordsFrozenButVariations ==
  \A k \in 1..Len(events) :
     \A r \in Range(SessionAfter(ClientKind, events, k - 1).iterations) :
        r.status \in TerminalStatus
        => \E t \in Range(SessionAfter(ClientKind, events, k).iterations) :
              /\ WithoutVariations(t) = WithoutVariations(r)
              /\ \/ t = r
                 \/ /\ events[k].type = "color_variation"
                    /\ events[k].iteration = r.iteration
                    /\ ClientKind = "illustration"
                    /\ Range(t.colorVariations) \subseteq
                          Range(r.colorVariations)
                          \cup {[id |-> events[k].variation, status |-> events[k].status]}

\* C27 witness: an illustration session's record of iteration 1 is complete
\* with its score and received two colour variations after that, the
\* second one replaced by its final state
C27_Witness ==
  /\ ClientKind = "illustration"
  /\ pc = "done"
  /\ \E r \in Range(SessionAfter(ClientKind, events, Len(events)).iterations) :
        /\ r.status = "complete"
        /\ r.score >= 0
        /\ Len(r.colorVariations) = 2
        /\ r.colorVariations[2].status \in {"complete", "error"}

\* C28: from the dna event on, no iteration step changes the reference DNA
\* or the reference visual description: they stay the values the dna event
\* announced, every generateImage call is handed those values, and every
\* iteration_eval event carries the dnaScore of the candidate compared
\* against them.
C28_ReferenceReadOnly ==
  [][ \A k \in DOMAIN events :
        events[k].type = "dna" =>
          /\ refDNA' = refDNA
          /\ visualDesc' = visualDesc
          /\ refDNA = events[k].dna
          /\ visualDesc = events[k].visualDescription
          /\ \A c \in (Len(calls) + 1)..Len(calls') :
                IsGenCall(calls'[c]) =>
                  /\ calls'[c].referenceDNA = events[k].dna
                  /\ calls'[c].visualDesc = events[k].visualDescription
          /\ \A e \in (Len(events) + 1)..Len(events') :
                events'[e].type = "iteration_eval" =>
                  events'[e].dnaScore = compareDNA(events[k].dna, genDNA) ]_vars

\* C28 witness: a second iteration was generated and evaluated against an
\* extracted (not default) reference after the first one was evaluated
C28_Witness ==
  /\ \E k \in DOMAIN events : events[k].type = "dna" /\ ~events[k].warning
  /\ CountEvents("iteration_eval", 1) = 1
  /\ CountEvents("iteration_eval", 2) = 1
  /\ \E k \in DOMAIN events :
        events[k].type = "iteration_eval" /\ events[k].iteration = 2 /\ events[k].dnaScore < 100

\* C30: over all evaluateConsistency calls with the same reference path,
\* concurrent sessions included, the reference features are extracted at
\* most once, and features taken from the cache were extracted from the
\* reference path of the call that uses them.
C30_ReferenceExtractedOnce ==
  cli.phase # "off" =>
    /\ cli.extracted <= 1
    /\ \A i \in Sessions :
          cli.sess[i].pc = "extractGenerated" =>
            cli.sess[i].refFeatures = FeaturesOf(cli.referenceImagePath)

\* C29: two sessions served concurrently are independent: whatever the
\* running session does (being cancelled, losing its reader or failing
\* included), the other session's events, bestScore, bestIteration and
\* feedback record, and every other variable of its call, stay as they
\* were, and handing control over changes neither session.
C29_SessionsIndependent ==
  [][ /\ peer.present
      /\ IF Switch
         THEN Own' = peer /\ peer' = Own
         ELSE /\ peer'.events = peer.events
              /\ peer'.bestScore = peer.bestScore
              /\ peer'.bestIteration = peer.bestIteration
              /\ peer'.previousFeedback = peer.previousFeedback
              /\ peer' = peer ]_vars

\* C29 witness: the running session was cancelled and has returned while
\* the other session, suspended at its evaluation call, has the events of
\* its iteration on its stream
C29_Witness ==
  /\ peer.present
  /\ isCancelled /\ exit = "cancelled" /\ pc = "done"
  /\ ~peer.isCancelled /\ peer.exit = "running" /\ peer.pc = "await_eval"
  /\ \E k \in DOMAIN peer.events : peer.events[k].type = "iteration_image"

\* C33: the complete event is self-consistent: either it reports
\* bestIteration 0 with bestScore 0 and no evaluated iteration scored above
\* 0, or bestIteration is the index of an iteration whose iteration_eval
\* carries bestScore; an evaluated iteration with composite 0 is never the
\* one reported.
C33_CompleteSelfConsistent ==
  \A k \in DOMAIN events :
     events[k].type = "complete"
     => /\ \/ /\ events[k].bestIteration = 0
              /\ events[k].bestScore = 0
              /\ \A e \in EvalEvents : ~Gt(e.score, 0)
           \/ \E e \in EvalEvents :
                 /\ e.iteration = events[k].bestIteration
                 /\ e.score = events[k].bestScore
        /\ \A e \in EvalEvents : e.score = 0 => events[k].bestIteration # e.iteration

\* C33 witness: iteration 1 was evaluated with composite 0, iteration 2
\* with a composite above 0, and the complete event reports iteration 2
C33_Witness ==
  /\ events # <<>>
  /\ Last(events).type = "complete"
  /\ Last(events).bestIteration = 2
  /\ \E e, f \in EvalEvents :
        /\ e.iteration = 1 /\ e.score = 0
        /\ f.iteration = 2 /\ Gt(f.score, 0)

\* C34: on every path through start(), controller.close() is invoked
\* exactly once: never twice while the handler runs, and once when it has
\* returned, the early returns for missing fields, a missing API key and a
\* cancel before the loop included.
C34_CloseExactlyOnce ==
  /\ closeCalls <= 1
  /\ pc = "done" => closeCalls = 1

\* C35: the stream is closed by a terminal event: in every state a complete
\* or error event is the last event of the stream, so no event follows
\* one, at most one complete and at most one error event are sent, and
\* never both.
C35_TerminalEventIsLast ==
  \A k \in DOMAIN events :
     events[k].type \in {"complete", "error"} => k = Len(events)

\* C35 witness: a session sent events of an iteration, then the error event,
\* and has returned with the stream closed
C35_Witness ==
  /\ pc = "done"
  /\ closeCalls >= 1
  /\ Len(events) >= 2
  /\ Last(events).type = "error"
  /\ \E k \in DOMAIN events : events[k].type = "iteration_image"

\* C32: after any mix of failed and successful generations, the image
\* copied to finalOutputPath is the output of the iteration whose index is
\* bestIteration, and a copy is attempted only from an existing record.
C32_FinalCopyIsBest ==
  \A i \in Sessions :
     cli.sess[i].copied # NoCopy => cli.sess[i].copied = cli.sess[i].bestIteration

\* C39: in an illustration session that was not cancelled and has sent its
\* complete event, if an iteration completed evaluation then color_variation
\* events are on the stream before the complete event, all of them belong
\* to one iteration, and their source image is the image of the iteration
\* the complete event reports as bestIteration.
C39_VariationsOfBest ==
  \A k \in DOMAIN events :
     (events[k].type = "complete" /\ ~isCancelled /\ EvalEvents # {})
     => /\ \E j \in 1..(k - 1) : events[j].type = "color_variation"
        /\ \A i, j \in DOMAIN events :
              (events[i].type = "color_variation" /\ events[j].type = "color_variation")
              => events[i].iteration = events[j].iteration
        /\ \A j \in DOMAIN events :
              events[j].type = "color_variation"
              => (j < k /\ events[j].source = events[k].bestIteration)

\* C38: the caller's iteration list never holds two records with the same
\* iteration index, whatever iteration_start, iteration_image,
\* iteration_eval and iteration_error messages arrive and in whatever
\* order, an iteration_image without its iteration_start and repeated
\* messages included.
C38_NoDuplicateIndex ==
  sc.phase = "client" =>
    \A i, j \in DOMAIN sc.session.iterations :
       sc.session.iterations[i].iteration = sc.session.iterations[j].iteration => i = j

\* C38 witness: the image of index 1 arrived without its iteration_start,
\* then the iteration_start of index 1, and a message of index 2 was
\* repeated; the list holds both indices
C38_Witness ==
  /\ sc.phase = "client"
  /\ Len(sc.received) = 4
  /\ sc.received[1] = [type |-> "iteration_image", iteration |-> 1, score |-> 70]
  /\ sc.received[2] = [type |-> "iteration_start", iteration |-> 1, score |-> 70]
  /\ sc.received[3] = sc.received[4]
  /\ sc.received[3].iteration = 2
  /\ Len(sc.session.iterations) = 2

\* C36: SSE framing does not depend on the chunks: whatever events the
\* server sends and however the bytes are cut into chunks, the messages
\* handed to onMessage are always the first of the sent events, in the sent
\* order, and when the stream has been read to its end they are exactly
\* the sent events, each once.
C36_FramingChunkIndependent ==
  hook.phase \in {"read", "done"} =>
    /\ Len(hook.delivered) <= Len(hook.sent)
    /\ hook.delivered = SubSeq(hook.sent, 1, Len(hook.delivered))
    /\ hook.phase = "done" => hook.delivered = hook.sent

\* C36 witness: two events, one holding U+00E9 and one holding line feeds,
\* were read to the end through a chunk that ended inside a frame and
\* inside a character, and a chunk that held the end of both messages
C36_Witness ==
  /\ hook.phase = "done"
  /\ hook.sent = << <<"e_acute">>, <<LF, LF>> >>
  /\ hook.midFrame
  /\ hook.midChar
  /\ hook.several

\* C37: whenever a request started by start() is in flight and was not
\* aborted, the abort-controller reference points at that request's
\* controller and isStreaming is true, so that a later cancel() aborts it;
\* for any interleaving of start, cancel, a second start and the finally
\* block of an earlier, aborted start.
C37_RefPointsAtLiveRequest ==
  hook.phase = "mounted" =>
    \A i \in DOMAIN hook.reqs :
       (hook.reqs[i].pc \in {"fetch", "read"} /\ ~hook.reqs[i].aborted)
       => (hook.ref = i /\ hook.isStreaming)

\* what C31 compares of an event: its kind, its iteration index, the score
\* of an iteration_eval, bestScore and bestIteration of a complete; -1
\* where the event has no such field
Gist(e) ==
  [ type |-> e.type, iteration |-> e.iteration,
    score |-> IF e.type = "iteration_eval" THEN e.score ELSE -1,
    bestScore |-> IF e.type = "complete" THEN e.bestScore ELSE -1,
    bestIteration |-> IF e.type = "complete" THEN e.bestIteration ELSE -1 ]

Gists(evs) == [k \in 1..Len(evs) |-> Gist(evs[k])]

====
